---- MODULE Spec2Model ----
(***************************************************************************)
(* Model of the VOTS story catalog: the FileScannerService                 *)
(* (scanTextFiles / getTextFilesFromFolder / getFileInfo), the             *)
(* TextFileReaderService (readTextFile / readMultipleTextFiles /           *)
(* readTextFileWithFormatting) and the Stories page that lists the         *)
(* catalog (loadStories).                                                  *)
(*                                                                         *)
(* JavaScript strings are modelled as sequences of one-character strings,  *)
(* so that toLowerCase, endsWith, includes, split, trim and replace are    *)
(* computed character by character as the engine computes them.            *)
(***************************************************************************)
EXTENDS Integers, Sequences, FiniteSets, TLC

(***************************************************************************)
(* String primitives (ECMAScript String.prototype).                        *)
(***************************************************************************)
UpperChars == <<"A","B","C","D","E","F","G","H","I","J","K","L","M",
                "N","O","P","Q","R","S","T","U","V","W","X","Y","Z">>

LowerChars == <<"a","b","c","d","e","f","g","h","i","j","k","l","m",
                "n","o","p","q","r","s","t","u","v","w","x","y","z">>

DigitChars == <<"0","1","2","3","4","5","6","7","8","9">>

IsUpper(c) == \E i \in DOMAIN UpperChars : UpperChars[i] = c

IsLower(c) == \E i \in DOMAIN LowerChars : LowerChars[i] = c

IsDigit(c) == \E i \in DOMAIN DigitChars : DigitChars[i] = c

\* /\s/ over the characters the model uses
SpaceChars == {" ", "\n", "\t", "\r"}

IsSpace(c) == c \in SpaceChars

toLowerChar(c) ==
    IF IsUpper(c)
    THEN LowerChars[CHOOSE i \in DOMAIN UpperChars : UpperChars[i] = c]
    ELSE c

toUpperChar(c) ==
    IF IsLower(c)
    THEN UpperChars[CHOOSE i \in DOMAIN LowerChars : LowerChars[i] = c]
    ELSE c

toLowerCase(s) == [i \in 1..Len(s) |-> toLowerChar(s[i])]

toUpperCase(s) == [i \in 1..Len(s) |-> toUpperChar(s[i])]

\* s.substring(from) with a 0-based index
sliceFrom(s, from) == SubSeq(s, from + 1, Len(s))

startsAt(s, sub, i) ==
    /\ i + Len(sub) <= Len(s)
    /\ SubSeq(s, i + 1, i + Len(sub)) = sub

\* s.indexOf(sub): 0-based index of the first occurrence, -1 if none
indexOf(s, sub) ==
    IF \E i \in 0..Len(s) : startsAt(s, sub, i)
    THEN CHOOSE i \in 0..Len(s) :
            /\ startsAt(s, sub, i)
            /\ \A j \in 0..(i - 1) : ~startsAt(s, sub, j)
    ELSE -1

includes(s, sub) == indexOf(s, sub) >= 0

endsWith(s, suffix) ==
    /\ Len(s) >= Len(suffix)
    /\ SubSeq(s, Len(s) - Len(suffix) + 1, Len(s)) = suffix

\* s.replace(pattern, replacement) with a string pattern: first occurrence only
replace(s, pattern, replacement) ==
    LET i == indexOf(s, pattern)
    IN  IF i < 0 THEN s
        ELSE SubSeq(s, 1, i) \o replacement \o sliceFrom(s, i + Len(pattern))

RECURSIVE trimStart(_)
trimStart(s) ==
    IF s # <<>> /\ IsSpace(Head(s)) THEN trimStart(Tail(s)) ELSE s

RECURSIVE trimEnd(_)
trimEnd(s) ==
    IF s # <<>> /\ IsSpace(s[Len(s)]) THEN trimEnd(SubSeq(s, 1, Len(s) - 1)) ELSE s

trim(s) == trimEnd(trimStart(s))

\* s.split(sep) with a one-character separator: always at least one segment
\* the segments lie between consecutive separators
split(s, sep) ==
    LET cuts == SelectSeq([i \in 1..Len(s) |-> i], LAMBDA i : s[i] = sep)
        edge == <<0>> \o cuts \o <<Len(s) + 1>>
    IN  [k \in 1..(Len(cuts) + 1) |-> SubSeq(s, edge[k] + 1, edge[k + 1] - 1)]

\* s.split(/[...]+/): cut at every maximal run of separator characters
\* the segments lie between consecutive runs; a run at the start or the end
\* of s leaves an empty segment there
splitRuns(s, seps) ==
    LET idx    == [i \in 1..Len(s) |-> i]
        starts == SelectSeq(idx, LAMBDA i : s[i] \in seps
                                            /\ (i = 1 \/ s[i - 1] \notin seps))
        ends   == SelectSeq(idx, LAMBDA i : s[i] \in seps
                                            /\ (i = Len(s) \/ s[i + 1] \notin seps))
        from   == <<1>> \o [k \in 1..Len(ends) |-> ends[k] + 1]
        to     == [k \in 1..Len(starts) |-> starts[k] - 1] \o <<Len(s)>>
    IN  [k \in 1..(Len(starts) + 1) |-> SubSeq(s, from[k], to[k])]

\* array.pop(): the last element
pop(a) == a[Len(a)]

\* array.join(sep)
RECURSIVE join(_, _)
join(a, sep) ==
    IF a = <<>> THEN <<>>
    ELSE IF Len(a) = 1 THEN a[1]
         ELSE a[1] \o sep \o join(Tail(a), sep)

\* `${n}` for a non-negative integer
RECURSIVE numberToString(_)
numberToString(n) ==
    IF n < 10 THEN <<DigitChars[n + 1]>>
    ELSE numberToString(n \div 10) \o <<DigitChars[(n % 10) + 1]>>

\* content.trim().split(/\s+/).filter(word => word.length > 0)
words(content) ==
    SelectSeq(splitRuns(trim(content), SpaceChars), LAMBDA w : Len(w) > 0)

(***************************************************************************)
(* String constants of the source, spelled as character sequences.         *)
(***************************************************************************)
DotTxt == <<".","t","x","t">>

Http == <<"h","t","t","p">>

Www == <<"w","w","w">>

Readme == <<"r","e","a","d","m","e">>

Manifest == <<"m","a","n","i","f","e","s","t">>

License == <<"l","i","c","e","n","s","e">>

Changelog == <<"c","h","a","n","g","e","l","o","g">>

Contributing == <<"c","o","n","t","r","i","b","u","t","i","n","g">>

ExampleTxt == <<"e","x","a","m","p","l","e",".","t","x","t">>

FileManifestJson == <<"f","i","l","e","-","m","a","n","i","f","e","s","t",
                      ".","j","s","o","n">>

\* './src/StoryTxt/', the folder both pages scan
StoryTxtFolder == <<".","/","s","r","c","/","S","t","o","r","y","T","x","t","/">>

(***************************************************************************)
(* Text analysis: FileScannerService.extractTitle / generateFileInfo.      *)
(* A blurb or a message is a sequence of string pieces (template literals  *)
(* and digits) whose concatenation is the JavaScript string.               *)
(***************************************************************************)
TitleMaxLen == 100

ShortMaxLines == 10

MediumMaxLines == 50

\* /[-_\s]/
TitleSepChars == {"-", "_"} \cup SpaceChars

\* word.charAt(0).toUpperCase() + word.slice(1).toLowerCase()
titleCaseWord(word) ==
    IF word = <<>> THEN <<>>
    ELSE <<toUpperChar(word[1])>> \o toLowerCase(Tail(word))

\* a title rule that does not look for links in the first line
extractTitle_NoLinkCheck(firstLine, fileName) ==
    IF /\ firstLine # <<>>
       /\ Len(firstLine) < TitleMaxLen
       /\ IsUpper(firstLine[1])
    THEN firstLine
    ELSE LET tokens == splitRuns(fileName, TitleSepChars)
         IN  join([i \in 1..Len(tokens) |-> titleCaseWord(tokens[i])], <<" ">>)

extractTitle(firstLine, fileName) ==
    IF /\ firstLine # <<>>
       /\ Len(firstLine) < TitleMaxLen
       /\ Len(firstLine) > 0
       /\ IsUpper(firstLine[1])
       /\ ~includes(firstLine, Http)
       /\ ~includes(firstLine, Www)
    THEN firstLine
    ELSE LET tokens == splitRuns(fileName, TitleSepChars)
         IN  join([i \in 1..Len(tokens) |-> titleCaseWord(tokens[i])], <<" ">>)

\* /\d{4}-\d{2}-\d{2}/ matches at 0-based index i
dateAt(s, i) ==
    /\ i + 10 <= Len(s)
    /\ \A k \in {1, 2, 3, 4, 6, 7, 9, 10} : IsDigit(s[i + k])
    /\ s[i + 5] = "-"
    /\ s[i + 8] = "-"

matchesDate(s) == \E i \in 0..Len(s) : dateAt(s, i)

\* buckets whose upper limits are exclusive
lengthBase_ExclusiveLimits(lineCount) ==
    IF lineCount <= 1 THEN <<"Single line text file">>
    ELSE IF lineCount < ShortMaxLines
         THEN <<"Short story with ">> \o numberToString(lineCount) \o <<" lines">>
    ELSE IF lineCount < MediumMaxLines
         THEN <<"Medium story with ">> \o numberToString(lineCount) \o <<" lines">>
    ELSE <<"Long story with ">> \o numberToString(lineCount) \o <<" lines">>

lengthBase(lineCount) ==
    IF lineCount <= 1 THEN <<"Single line text file">>
    ELSE IF lineCount <= ShortMaxLines
         THEN <<"Short story with ">> \o numberToString(lineCount) \o <<" lines">>
    ELSE IF lineCount <= MediumMaxLines
         THEN <<"Medium story with ">> \o numberToString(lineCount) \o <<" lines">>
    ELSE <<"Long story with ">> \o numberToString(lineCount) \o <<" lines">>

\* hints chained with else-if, so at most one is appended
generateFileInfo_OneHint(content, fileName) ==
    LET lines == split(content, "\n")
        ws    == words(content)
    IN  lengthBase(Len(lines))
        \o <<" (">> \o numberToString(Len(ws)) \o <<" words)">>
        \o (IF includes(content, Http) \/ includes(content, Www)
            THEN <<" - Contains links">>
            ELSE IF includes(content, <<"@">>)
            THEN <<" - Contains email addresses">>
            ELSE IF matchesDate(content)
            THEN <<" - Contains dates">> ELSE <<>>)

generateFileInfo(content, fileName) ==
    LET lines == split(content, "\n")
        ws    == words(content)
    IN  lengthBase(Len(lines))
        \o <<" (">> \o numberToString(Len(ws)) \o <<" words)">>
        \o (IF includes(content, Http) \/ includes(content, Www)
            THEN <<" - Contains links">> ELSE <<>>)
        \o (IF includes(content, <<"@">>)
            THEN <<" - Contains email addresses">> ELSE <<>>)
        \o (IF matchesDate(content)
            THEN <<" - Contains dates">> ELSE <<>>)

(***************************************************************************)
(* JavaScript values, errors and completions.                              *)
(***************************************************************************)
JsNull == [t |-> "null"]

JsUndefined == [t |-> "undefined"]

JsObject == [t |-> "object"]

Str(s) == [t |-> "string", s |-> s]

Num(n) == [t |-> "number", n |-> n]

Arr(a) == [t |-> "array", a |-> a]

\* ToBoolean(v), as in `!filePath`
truthy(v) ==
    CASE v.t = "string" -> v.s # <<>>
      [] v.t = "number" -> v.n # 0
      [] v.t \in {"null", "undefined"} -> FALSE
      [] OTHER -> TRUE

\* new Error(message): error.name is "Error"
Error(message) == [name |-> "Error", message |-> message]

\* what fetch() and Response.text() reject with
TypeError(message) == [name |-> "TypeError", message |-> message]

\* a completion of a block of code: it returns, throws, or suspends on a fetch
Return(v) == [c |-> "return", v |-> v]

Throw(e) == [c |-> "throw", e |-> e]

AwaitFetch(url) == [c |-> "await", url |-> url]

\* the promise an async function returns, once its body has completed
Fulfilled(v) == [state |-> "fulfilled", value |-> v]

Rejected(e) == [state |-> "rejected", reason |-> e]

Pending == [state |-> "pending"]

settle(completion) ==
    IF completion.c = "return" THEN Fulfilled(completion.v) ELSE Rejected(completion.e)

(***************************************************************************)
(* The network: what one fetch(url) can settle with.                       *)
(***************************************************************************)
\* no outcome yet: the fetch is in flight
NoOutcome == [k |-> "none"]

FetchRejected == [k |-> "reject", reason |-> TypeError(<<"Failed to fetch">>)]

\* a Response; `readable` is whether reading its body succeeds
Response(status, statusText, readable, body) ==
    [k |-> "response", status |-> status, statusText |-> statusText,
     readable |-> readable, body |-> body, lastModified |-> JsNull]

\* Response.ok
ok(response) == response.status >= 200 /\ response.status <= 299

\* a catch block that reports one message for every failure
failureResult_OneMessage(e, ts) ==
    [success |-> FALSE,
     error |-> [message |-> <<"Operation failed">>, type |-> e.name, timestamp |-> ts],
     data |-> JsNull]

\* `catch (error) { return { success: false, error: {...}, data: null } }`
failureResult(e, ts) ==
    [success |-> FALSE,
     error |-> [message |-> e.message, type |-> e.name, timestamp |-> ts],
     data |-> JsNull]

\* a function body without its try / catch
catchAll_Rethrow(completion, ts) == completion

catchAll(completion, ts) ==
    IF completion.c = "throw" THEN Return(failureResult(completion.e, ts))
    ELSE completion

(***************************************************************************)
(* FileScannerService.getFileInfo                                          *)
(***************************************************************************)
\* an extension check that forgets to lower-case the path
getFileInfoValidate_CaseSensitive(filePath) ==
    IF ~truthy(filePath) \/ filePath.t # "string"
    THEN Throw(Error(<<"Invalid file path provided">>))
    ELSE IF ~endsWith(filePath.s, DotTxt)
         THEN Throw(Error(<<"File must have .txt extension">>))
         ELSE AwaitFetch(filePath.s)

\* the body up to `await fetch(filePath)`
getFileInfoValidate(filePath) ==
    IF ~truthy(filePath) \/ filePath.t # "string"
    THEN Throw(Error(<<"Invalid file path provided">>))
    ELSE IF ~endsWith(toLowerCase(filePath.s), DotTxt)
         THEN Throw(Error(<<"File must have .txt extension">>))
         ELSE AwaitFetch(filePath.s)

\* the record built from the content
\* a record whose word count keeps the empty tokens
fileRecord_UnfilteredWords(path, content, ts) ==
    LET lines     == split(content, "\n")
        firstLine == trim(lines[1])
        fileName  == replace(pop(split(path, "/")), DotTxt, <<>>)
    IN  [t |-> "record",
         path |-> path,
         title |-> extractTitle(firstLine, fileName),
         info |-> generateFileInfo(content, fileName),
         fileName |-> fileName,
         fileSize |-> Len(content),
         lineCount |-> Len(lines),
         wordCount |-> Len(splitRuns(trim(content), SpaceChars)),
         characterCount |-> Len(content),
         firstLine |-> firstLine,
         content |-> content,
         timestamp |-> ts]

fileRecord(path, content, ts) ==
    LET lines     == split(content, "\n")
        firstLine == trim(lines[1])
        fileName  == replace(pop(split(path, "/")), DotTxt, <<>>)
    IN  [t |-> "record",
         path |-> path,
         title |-> extractTitle(firstLine, fileName),
         info |-> generateFileInfo(content, fileName),
         fileName |-> fileName,
         fileSize |-> Len(content),
         lineCount |-> Len(lines),
         wordCount |-> Len(words(content)),
         characterCount |-> Len(content),
         firstLine |-> firstLine,
         content |-> content,
         timestamp |-> ts]

\* a body that reads the content without looking at contentResponse.ok
getFileInfoFetched_NoOkCheck(path, outcome, ts) ==
    IF outcome.k = "reject" THEN Throw(outcome.reason)
    ELSE IF ~outcome.readable
         THEN Throw(TypeError(<<"Failed to read body">>))
    ELSE Return([success |-> TRUE, data |-> fileRecord(path, outcome.body, ts)])

\* the body from the settled fetch on
getFileInfoFetched(path, outcome, ts) ==
    IF outcome.k = "reject" THEN Throw(outcome.reason)
    ELSE IF ~ok(outcome)
         THEN Throw(Error(<<"Failed to access file: ">>
                          \o numberToString(outcome.status)
                          \o <<" ", outcome.statusText>>))
    ELSE IF ~outcome.readable
         THEN Throw(TypeError(<<"Failed to read body">>))
    ELSE Return([success |-> TRUE, data |-> fileRecord(path, outcome.body, ts)])

\* getFileInfo run to its first suspension: settled at once, or awaiting a fetch
getFileInfoStart(filePath, ts) ==
    LET c == catchAll(getFileInfoValidate(filePath), ts)
    IN  IF c.c = "await" THEN [promise |-> Pending, url |-> c.url]
        ELSE [promise |-> settle(c), url |-> <<>>]

\* getFileInfo resumed with the outcome of its fetch
getFileInfoResume(path, outcome, ts) ==
    settle(catchAll(getFileInfoFetched(path, outcome, ts), ts))

(***************************************************************************)
(* FileScannerService.scanTextFiles / getTextFilesFromFolder               *)
(***************************************************************************)
\* a manifest's JSON body: textFiles is undefined, a non-array, or an array of
\* entries {path, title, info}; a body that is not JSON has json = FALSE
ManifestBody(textFiles) == [json |-> TRUE, textFiles |-> textFiles]

NotJson == [json |-> FALSE, textFiles |-> JsUndefined]

Entry(path) == [path |-> path, title |-> <<"t">>, info |-> <<"i">>]

\* the older default list, which also names a README
knownTextFiles_WithReadme(folderPath) ==
    << [path |-> Str(folderPath \o ExampleTxt),
        title |-> <<"Example Text File">>,
        info |-> <<"Sample text file for testing the TextFileReaderService">>],
       [path |-> Str(folderPath \o <<"R","E","A","D","M","E",".","t","x","t">>),
        title |-> <<"README File">>,
        info |-> <<"Project documentation and setup instructions">>] >>

knownTextFiles(folderPath) ==
    << [path |-> Str(folderPath \o ExampleTxt),
        title |-> <<"Example Text File">>,
        info |-> <<"Sample text file for testing the TextFileReaderService">>] >>

\* a filter that compares without lower-casing the path
isStoryFile_CaseSensitive(file) ==
    LET fileName == file.path.s
    IN  /\ ~includes(fileName, Readme)
        /\ ~includes(fileName, Manifest)
        /\ ~includes(fileName, License)
        /\ ~includes(fileName, Changelog)
        /\ ~includes(fileName, Contributing)
        /\ endsWith(file.path.s, DotTxt)

\* the predicate of manifest.textFiles.filter(...)
isStoryFile(file) ==
    LET fileName == toLowerCase(file.path.s)
    IN  /\ ~includes(fileName, Readme)
        /\ ~includes(fileName, Manifest)
        /\ ~includes(fileName, License)
        /\ ~includes(fileName, Changelog)
        /\ ~includes(fileName, Contributing)
        /\ endsWith(toLowerCase(file.path.s), DotTxt)

\* manifest.textFiles?.filter(...) || [] : the list, or a thrown TypeError
storyFilesOf(manifest) ==
    LET tf == manifest.textFiles
    IN  IF tf.t \in {"undefined", "null"} THEN Return(<<>>)
        ELSE IF tf.t # "array"
             THEN Throw(TypeError(<<"filter is not a function">>))
        ELSE IF \E i \in 1..Len(tf.a) : tf.a[i].path.t # "string"
             THEN Throw(TypeError(<<"Cannot read properties of undefined">>))
        ELSE Return(SelectSeq(tf.a, isStoryFile))

\* a scan that hands back the filtered list even when it is empty
getTextFilesFromFolder_EmptyStays(folderPath, outcome) ==
    IF outcome.k = "reject" THEN knownTextFiles(folderPath)
    ELSE IF ~ok(outcome) THEN knownTextFiles(folderPath)
    ELSE IF ~outcome.readable \/ ~outcome.body.json THEN knownTextFiles(folderPath)
    ELSE LET storyFiles == storyFilesOf(outcome.body)
         IN  IF storyFiles.c = "throw" THEN knownTextFiles(folderPath)
             ELSE storyFiles.v

\* getTextFilesFromFolder from the settled manifest fetch on; it never throws
getTextFilesFromFolder(folderPath, outcome) ==
    IF outcome.k = "reject" THEN knownTextFiles(folderPath)
    ELSE IF ~ok(outcome) THEN knownTextFiles(folderPath)
    ELSE IF ~outcome.readable \/ ~outcome.body.json THEN knownTextFiles(folderPath)
    ELSE LET storyFiles == storyFilesOf(outcome.body)
         IN  IF storyFiles.c = "throw" THEN knownTextFiles(folderPath)
             ELSE IF Len(storyFiles.v) > 0 THEN storyFiles.v
             ELSE knownTextFiles(folderPath)

\* folderPath.endsWith('/') ? folderPath : folderPath + '/'
normalizePath(folderPath) ==
    IF endsWith(folderPath, <<"/">>) THEN folderPath ELSE folderPath \o <<"/">>

\* a validation that checks the type only, so the empty string passes
scanTextFilesValidate_NoEmptyCheck(folderPath) ==
    IF folderPath.t # "string"
    THEN Throw(Error(<<"Invalid folder path provided">>))
    ELSE AwaitFetch(normalizePath(folderPath.s) \o FileManifestJson)

\* the body of scanTextFiles up to the manifest fetch
scanTextFilesValidate(folderPath) ==
    IF ~truthy(folderPath) \/ folderPath.t # "string"
    THEN Throw(Error(<<"Invalid folder path provided">>))
    ELSE AwaitFetch(normalizePath(folderPath.s) \o FileManifestJson)

scanTextFilesStart(folderPath, ts) ==
    LET c == catchAll(scanTextFilesValidate(folderPath), ts)
    IN  IF c.c = "await"
        THEN [promise |-> Pending, url |-> c.url,
              normalizedPath |-> normalizePath(folderPath.s)]
        ELSE [promise |-> settle(c), url |-> <<>>, normalizedPath |-> <<>>]

\* scanTextFiles resumed with the outcome of the manifest fetch
scanTextFilesResume(normalizedPath, outcome, ts) ==
    LET files == getTextFilesFromFolder(normalizedPath, outcome)
    IN  settle(catchAll(Return(
            [success |-> TRUE,
             data |-> [t |-> "scan",
                       folderPath |-> normalizedPath,
                       totalFiles |-> Len(files),
                       files |-> files,
                       scanTimestamp |-> ts],
             metadata |-> [scanMethod |-> "folder-scan",
                           environment |-> "browser"]]), ts))

(***************************************************************************)
(* TextFileReaderService (StoryReader.js)                                  *)
(***************************************************************************)
\* readTextFile up to `await fetch(filePath)`
readTextFileValidate(filePath) ==
    IF ~truthy(filePath) \/ filePath.t # "string"
    THEN Throw(Error(<<"Invalid file path provided">>))
    ELSE IF ~endsWith(toLowerCase(filePath.s), DotTxt)
         THEN Throw(Error(<<"File must have .txt extension">>))
         ELSE AwaitFetch(filePath.s)

\* readTextFile from the settled fetch on
readTextFileFetched(path, outcome, ts) ==
    IF outcome.k = "reject" THEN Throw(outcome.reason)
    ELSE IF ~ok(outcome)
         THEN Throw(Error(<<"Failed to fetch file: ">>
                          \o numberToString(outcome.status)
                          \o <<" ", outcome.statusText>>))
    ELSE IF ~outcome.readable
         THEN Throw(TypeError(<<"Failed to read body">>))
    ELSE LET textContent == outcome.body
         IN  Return([success |-> TRUE,
                     data |-> [t |-> "file",
                               content |-> textContent,
                               filePath |-> path,
                               fileName |-> pop(split(path, "/")),
                               fileSize |-> Len(textContent),
                               lineCount |-> Len(split(textContent, "\n")),
                               wordCount |-> Len(words(textContent)),
                               characterCount |-> Len(textContent),
                               timestamp |-> ts],
                     metadata |-> [encoding |-> "UTF-8",
                                   mimeType |-> "text/plain",
                                   lastModified |-> outcome.lastModified]])

readTextFileStart(filePath, ts) ==
    LET c == catchAll(readTextFileValidate(filePath), ts)
    IN  IF c.c = "await" THEN [promise |-> Pending, url |-> c.url]
        ELSE [promise |-> settle(c), url |-> <<>>]

readTextFileResume(path, outcome, ts) ==
    settle(catchAll(readTextFileFetched(path, outcome, ts), ts))

\* readMultipleTextFiles up to `await Promise.allSettled(...)`: every
\* readTextFile runs to its first await
readMultipleStart(filePaths, ts) ==
    IF filePaths.t # "array"
    THEN Throw(Error(<<"filePaths must be an array">>))
    ELSE Return([i \in 1..Len(filePaths.a) |->
                    LET r == readTextFileStart(filePaths.a[i], ts)
                    IN  [promise |-> r.promise, url |-> r.url,
                         started |-> TRUE, outcome |-> NoOutcome]])

\* Promise.allSettled: pending until every input has settled; never rejected
allSettled(ps) == \A i \in 1..Len(ps) : ps[i].state # "pending"

\* a forEach that labels the k-th failure with the k-th input path
readMultipleFinish_PathByRank(filePaths, ps, ts) ==
    LET isGood(i) == ps[i].state = "fulfilled" /\ ps[i].value.success
        idx == [i \in 1..Len(ps) |-> i]
        good == SelectSeq(idx, isGood)
        bad == SelectSeq(idx, LAMBDA i : ~isGood(i))
        successfulReads == [k \in 1..Len(good) |-> ps[good[k]].value]
        failedReads ==
            [k \in 1..Len(bad) |->
                [filePath |-> filePaths.a[k],
                 error |-> IF ps[bad[k]].state = "rejected"
                           THEN ps[bad[k]].reason.message
                           ELSE ps[bad[k]].value.error.message]]
    IN  Return([success |-> TRUE,
                data |-> [t |-> "reads",
                          successfulReads |-> successfulReads,
                          failedReads |-> failedReads,
                          totalFiles |-> Len(filePaths.a),
                          successfulCount |-> Len(successfulReads),
                          failedCount |-> Len(failedReads)],
                timestamp |-> ts])

\* results.forEach(...) and the returned object
readMultipleFinish(filePaths, ps, ts) ==
    LET isGood(i) == ps[i].state = "fulfilled" /\ ps[i].value.success
        idx == [i \in 1..Len(ps) |-> i]
        good == SelectSeq(idx, isGood)
        bad == SelectSeq(idx, LAMBDA i : ~isGood(i))
        successfulReads == [k \in 1..Len(good) |-> ps[good[k]].value]
        failedReads ==
            [k \in 1..Len(bad) |->
                [filePath |-> filePaths.a[bad[k]],
                 error |-> IF ps[bad[k]].state = "rejected"
                           THEN ps[bad[k]].reason.message
                           ELSE ps[bad[k]].value.error.message]]
    IN  Return([success |-> TRUE,
                data |-> [t |-> "reads",
                          successfulReads |-> successfulReads,
                          failedReads |-> failedReads,
                          totalFiles |-> Len(filePaths.a),
                          successfulCount |-> Len(successfulReads),
                          failedCount |-> Len(failedReads)],
                timestamp |-> ts])

\* formatting options {removeEmptyLines, trimWhitespace, lineSeparator}
defaultOptions ==
    [removeEmptyLines |-> FALSE, trimWhitespace |-> FALSE, lineSeparator |-> "\n"]

\* readTextFileWithFormatting from the settled readTextFile on
formatFetched(fileResult, formatOptions) ==
    IF ~fileResult.success THEN Return(fileResult)
    ELSE LET content0 == fileResult.data.content
             content1 == IF formatOptions.trimWhitespace THEN trim(content0)
                         ELSE content0
             lines0 == split(content1, formatOptions.lineSeparator)
             lines1 == IF formatOptions.removeEmptyLines
                       THEN SelectSeq(lines0, LAMBDA l : Len(trim(l)) > 0)
                       ELSE lines0
             lines2 == IF formatOptions.trimWhitespace
                       THEN [i \in 1..Len(lines1) |-> trim(lines1[i])]
                       ELSE lines1
             formattedContent == join(lines2, <<formatOptions.lineSeparator>>)
         IN  Return([success |-> TRUE,
                     data |-> [t |-> "formatted",
                               file |-> fileResult.data,
                               content |-> formattedContent,
                               originalContent |-> fileResult.data.content,
                               formattingApplied |-> formatOptions,
                               formattedLineCount |-> Len(lines2)],
                     metadata |-> fileResult.metadata])

(***************************************************************************)
(* The world the model draws its inputs from.                              *)
(***************************************************************************)
MaxManifest == 3

MaxClock == 2

SeqsUpTo(S, n) == UNION {[1..k -> S] : k \in 0..n}

PathA == StoryTxtFolder \o <<"a",".","t","x","t">>

PathB == StoryTxtFolder \o <<"B",".","T","X","T">>

PathReadme == <<".","/","d","o","c","s","/","R","E","A","D","M","E",".","t","x","t">>

PathMd == <<"n","o","t","e","s",".","m","d">>

\* manifest entries: two stories, an administrative file, a non-text file and
\* an entry without a path
EntryUniverse ==
    {Entry(Str(PathA)), Entry(Str(PathB)), Entry(Str(PathReadme)),
     Entry(Str(PathMd)), Entry(JsUndefined)}

ContentOne == <<"T","o","\n","b","e">>

ContentTwo == <<>>

ErrorPage == <<"N","o">>

\* outcomes of fetching a document
ContentOutcomes ==
    {FetchRejected,
     Response(404, "Not Found", TRUE, ErrorPage),
     Response(200, "OK", FALSE, <<>>),
     Response(200, "OK", TRUE, ContentOne),
     Response(200, "OK", TRUE, ContentTwo)}

\* further documents a single getFileInfo call can be answered with
DocumentContents ==
    {<<"\n">>, <<" ">>, <<" ","\t","A"," ","b"," ","\n","c">>,
     <<"\n","a","\n">>, <<"a"," "," ","b","\r","\n"," ","c","\n","\n">>,
     <<"w","w","w"," ","@","\n","1","9","9","9","-","1","2","-","3","1">>}
    \cup {join([i \in 1..11 |-> <<"a"," ","b">>], <<"\n">>)}

DocumentOutcomes ==
    ContentOutcomes \cup {Response(200, "OK", TRUE, c) : c \in DocumentContents}

\* outcomes of fetching file-manifest.json
ManifestOutcomes ==
    {FetchRejected,
     Response(404, "Not Found", TRUE, NotJson),
     Response(404, "Not Found", TRUE, ManifestBody(Arr(<<Entry(Str(PathA))>>))),
     Response(200, "OK", FALSE, NotJson),
     Response(200, "OK", TRUE, NotJson),
     Response(200, "OK", TRUE, ManifestBody(JsUndefined)),
     Response(200, "OK", TRUE, ManifestBody(JsObject))}
    \cup {Response(200, "OK", TRUE, ManifestBody(Arr(a))) :
            a \in SeqsUpTo(EntryUniverse, MaxManifest)}

\* the folder as a visit finds it: nothing is known of it on the first visit
unknownFolder == [manifest |-> NoOutcome, content |-> <<>>, was |-> <<>>]

\* what `fetch(manifestUrl)` can settle with
manifestAnswers(folder) ==
    IF folder.manifest = NoOutcome THEN ManifestOutcomes ELSE {folder.manifest}

\* a fetch answered from what the URL served on the previous visit
contentAnswers_Cached(url, folder) ==
    IF url \in DOMAIN folder.was THEN {folder.was[url]} ELSE ContentOutcomes

\* what `fetch(filePath)` can settle with: what the folder serves now
contentAnswers(url, folder) ==
    IF url \in DOMAIN folder.content THEN {folder.content[url]} ELSE ContentOutcomes

(***************************************************************************)
(* State.                                                                  *)
(***************************************************************************)
VARIABLES
    now,        \* the clock read by new Date()
    stories,    \* Stories: useState([])
    loading,    \* Stories: useState(true)
    error,      \* Stories: useState(null)
    storiesPc,  \* where loadStories is: mounted, awaitScan, awaitAll, done
    scan,       \* the scanTextFiles call of loadStories and its manifest fetch
    tasks,      \* one per scanned file: the map callback and its content fetch
    fetches,    \* the URLs loadStories has requested, in request order
    settleOrder, \* the indices of tasks, in the order their fetches settled
    svc,        \* a direct call of a service operation by a client
    analysis,   \* a direct call of extractTitle / generateFileInfo
    location,   \* the route the router matched, with its title parameter
    storyView,  \* the Story component: its state and what it rendered
    shell,      \* AppRoutesWithTransition: its state, its effect and its timers
    tool,       \* the manifest tool: the directory it scans and what it wrote
    visit       \* which visit of the Stories page this is, what the previous
                \* visit listed and what the StoryTxt folder serves since then

pageVars == <<stories, loading, error, storiesPc, scan, tasks, fetches, settleOrder>>

\* the state outside the Stories page and the service client
otherVars == <<analysis, location, storyView, visit, tool, shell>>

vars == <<now, stories, loading, error, storiesPc, scan, tasks, fetches,
          settleOrder, svc, otherVars>>

ErrMsg(message) == [t |-> "string", pieces |-> message]

(***************************************************************************)
(* Stories.loadStories                                                     *)
(***************************************************************************)
\* a callback that throws on a failed read instead of returning null
storyCallback_Throws(infoPromise) ==
    IF infoPromise.state = "pending" THEN Pending
    ELSE IF infoPromise.state = "rejected" THEN Rejected(infoPromise.reason)
    ELSE IF infoPromise.value.success THEN Fulfilled(infoPromise.value.data)
    ELSE Rejected(Error(infoPromise.value.error.message))

\* async (file) => { fileInfo = await getFileInfo(file.path);
\*                   return fileInfo.success ? fileInfo.data : null }
storyCallback(infoPromise) ==
    IF infoPromise.state = "pending" THEN Pending
    ELSE IF infoPromise.state = "rejected" THEN Rejected(infoPromise.reason)
    ELSE Fulfilled(IF infoPromise.value.success
                   THEN infoPromise.value.data ELSE JsNull)

\* scanResult.data.files.map(callback): every callback runs to its first await
startAll(files, ts) ==
    [i \in 1..Len(files) |->
        LET g == getFileInfoStart(files[i].path, ts)
        IN  [promise |-> storyCallback(g.promise), url |-> g.url,
             started |-> TRUE, outcome |-> NoOutcome]]

\* Promise.all: rejected as soon as one input is, fulfilled once all are
promiseAll(ps) ==
    IF \E i \in 1..Len(ps) : ps[i].state = "rejected"
    THEN Rejected((ps[CHOOSE i \in 1..Len(ps) : ps[i].state = "rejected"]).reason)
    ELSE IF \A i \in 1..Len(ps) : ps[i].state = "fulfilled"
         THEN Fulfilled([i \in 1..Len(ps) |-> ps[i].value])
         ELSE Pending

promisesOf(ts) == [i \in 1..Len(ts) |-> ts[i].promise]

\* a filter that keeps the failed reads
validStories_KeepAll(detailedStories) == detailedStories

\* detailedStories.filter(story => story !== null)
validStories(detailedStories) == SelectSeq(detailedStories, LAMBDA s : s # JsNull)

\* loadStories from the settled Promise.all on (try / catch / finally)
loadStoriesFinish(all, cur) ==
    IF all.state = "fulfilled"
    THEN [cur EXCEPT !.stories = validStories(all.value),
                     !.loading = FALSE, !.pc = "done"]
    ELSE [cur EXCEPT !.error = ErrMsg(all.reason.message),
                     !.loading = FALSE, !.pc = "done"]

\* loadStories from the settled scanTextFiles on
loadStoriesScanned(scanPromise, cur, ts) ==
    IF scanPromise.state = "rejected"
    THEN [cur EXCEPT !.error = ErrMsg(scanPromise.reason.message),
                     !.loading = FALSE, !.pc = "done"]
    ELSE IF ~scanPromise.value.success
         THEN [cur EXCEPT !.error = ErrMsg(scanPromise.value.error.message),
                          !.loading = FALSE, !.pc = "done"]
    ELSE LET started == startAll(scanPromise.value.data.files, ts)
             all     == promiseAll(promisesOf(started))
             next    == [cur EXCEPT !.tasks = started, !.pc = "awaitAll"]
         IN  IF all.state = "pending" THEN next ELSE loadStoriesFinish(all, next)

page == [stories |-> stories, loading |-> loading, error |-> error,
         pc |-> storiesPc, tasks |-> tasks]

setPage(p) ==
    /\ stories' = p.stories
    /\ loading' = p.loading
    /\ error' = p.error
    /\ storiesPc' = p.pc
    /\ tasks' = p.tasks

urlsOf(ts) ==
    LET issued == SelectSeq(ts, LAMBDA x : x.started /\ x.url # <<>>)
    IN  [i \in 1..Len(issued) |-> issued[i].url]

\* useEffect(() => { loadStories() }, []): up to `await scanTextFiles(...)`
LoadStoriesStart ==
    /\ storiesPc = "mounted"
    /\ LET sc  == scanTextFilesStart(Str(StoryTxtFolder), now)
           cur == [page EXCEPT !.loading = TRUE, !.error = JsNull]
       IN  /\ scan' = [call |-> sc, outcome |-> NoOutcome]
           /\ IF sc.promise.state = "pending"
              THEN /\ setPage([cur EXCEPT !.pc = "awaitScan"])
                   /\ fetches' = Append(fetches, sc.url)
              ELSE LET p == loadStoriesScanned(sc.promise, cur, now)
                   IN  /\ setPage(p)
                       /\ fetches' = fetches \o urlsOf(p.tasks)
    /\ UNCHANGED <<now, settleOrder, svc, otherVars>>

\* the manifest fetch settles; scanTextFiles returns and loadStories goes on
\* to start every getFileInfo
ManifestFetchSettles ==
    /\ storiesPc = "awaitScan"
    /\ \E outcome \in manifestAnswers(visit.folder) :
          LET sp == scanTextFilesResume(scan.call.normalizedPath, outcome, now)
              p  == loadStoriesScanned(sp, page, now)
          IN  /\ scan' = [call |-> [scan.call EXCEPT !.promise = sp],
                          outcome |-> outcome]
              /\ setPage(p)
              /\ fetches' = fetches \o urlsOf(p.tasks)
    /\ UNCHANGED <<now, settleOrder, svc, otherVars>>

\* the content fetch of one file settles; its callback returns, and when that
\* settles the Promise.all, loadStories publishes
ContentFetchSettles(i) ==
    /\ i \in 1..Len(tasks)
    /\ tasks[i].promise.state = "pending"
    /\ \E outcome \in contentAnswers(tasks[i].url, visit.folder) :
          LET info  == getFileInfoResume(tasks[i].url, outcome, now)
              done  == [tasks EXCEPT ![i].promise = storyCallback(info),
                                     ![i].outcome = outcome]
              cur   == [page EXCEPT !.tasks = done]
              all   == promiseAll(promisesOf(done))
          IN  IF storiesPc = "awaitAll" /\ all.state # "pending"
              THEN setPage(loadStoriesFinish(all, cur))
              ELSE setPage(cur)
    /\ settleOrder' = Append(settleOrder, i)
    /\ UNCHANGED <<now, scan, fetches, svc, otherVars>>

(***************************************************************************)
(* Leaving the Stories page and coming back to it (or reloading it): the   *)
(* component is mounted again, with its initial state, and its effect      *)
(* calls loadStories again.                                                *)
(***************************************************************************)
MaxVisits == 2

\* the state of a freshly mounted Stories component
mountedStories ==
    [stories |-> <<>>, loading |-> TRUE, error |-> JsNull, pc |-> "mounted",
     tasks |-> <<>>]

noScan ==
    [call |-> [promise |-> Pending, url |-> <<>>, normalizedPath |-> <<>>],
     outcome |-> NoOutcome]

firstVisit == [n |-> 1, folder |-> unknownFolder, previous |-> JsNull]

\* the URLs whose content a listing requested
urlsRequested(ts) == {ts[i].url : i \in {j \in 1..Len(ts) : ts[j].url # <<>>}}

\* what the listing just finished found in the folder; of a URL requested
\* twice, the later answer
folderSeen(manifestOutcome, ts) ==
    LET content == [u \in urlsRequested(ts) |->
                       LET last == CHOOSE i \in 1..Len(ts) :
                                       /\ ts[i].url = u
                                       /\ \A j \in (i + 1)..Len(ts) : ts[j].url # u
                       IN  ts[last].outcome]
    IN  [manifest |-> manifestOutcome, content |-> content, was |-> content]

\* documents an author can replace one with between two visits
ContentEdits ==
    {Response(200, "OK", TRUE, ContentOne),
     Response(200, "OK", TRUE, <<"T","o","\n","b","e","\n","o","r">>),
     Response(404, "Not Found", TRUE, ErrorPage)}

\* manifests an author can replace the manifest with between two visits
ManifestEdits ==
    {Response(404, "Not Found", TRUE, NotJson),
     Response(200, "OK", TRUE, ManifestBody(Arr(<<Entry(Str(PathB)), Entry(Str(PathA))>>)))}

\* the folder at the next visit: unchanged, or with one document or the
\* manifest replaced
foldersAfter(folder) ==
    {folder}
    \cup {[folder EXCEPT !.content[u] = o] :
             u \in DOMAIN folder.content, o \in ContentEdits}
    \cup {[folder EXCEPT !.manifest = m] : m \in ManifestEdits}

RevisitStories ==
    /\ storiesPc = "done"
    /\ location.route = "/stories"
    /\ visit.n < MaxVisits
    /\ now < MaxClock
    /\ now' = now + 1
    /\ \E folder \in foldersAfter(folderSeen(scan.outcome, tasks)) :
          visit' = [n |-> visit.n + 1,
                    folder |-> folder,
                    previous |-> [stories |-> stories, manifest |-> scan.outcome,
                                  contents |-> [i \in 1..Len(tasks) |-> tasks[i].outcome]]]
    /\ setPage(mountedStories)
    /\ scan' = noScan
    /\ fetches' = <<>>
    /\ settleOrder' = <<>>
    /\ UNCHANGED <<svc, analysis, location, storyView, tool, shell>>

(***************************************************************************)
(* A client calling the service operations directly.                       *)
(***************************************************************************)
MaxFiles == 2

\* arguments a caller can pass as a path
PathInputs ==
    {Str(PathA), Str(PathB), Str(<<"x",".","T","x","t">>), Str(DotTxt),
     Str(<<"d",".","t","x","t","/","e",".","t","x","t",".","t","x","t">>),
     Str(PathMd), Str(<<"t","x","t">>), Str(<<>>),
     JsNull, JsUndefined, Num(0), Num(7), JsObject}

\* arguments a caller can pass as a folder
FolderInputs ==
    {Str(StoryTxtFolder), Str(<<"d">>), Str(<<"d","/">>), Str(<<"/">>), Str(<<>>),
     JsNull, JsUndefined, Num(0), Num(7), JsObject}

\* arguments a caller can pass as a list of paths
FileListInputs ==
    {Arr(a) : a \in SeqsUpTo({Str(PathA), Str(PathMd), JsNull}, MaxFiles)}
    \cup {JsNull, JsUndefined, JsObject, Str(PathA)}

OptionInputs ==
    [removeEmptyLines : BOOLEAN, trimWhitespace : BOOLEAN, lineSeparator : {"\n", " "}]

idleCall ==
    [op |-> "none", arg |-> JsNull, opts |-> defaultOptions, phase |-> "idle",
     promise |-> Pending, tasks |-> <<>>, path |-> <<>>]

\* a call that has run to its first await, or to its end
startedCall(op, arg, opts, promise, url, path) ==
    [op |-> op, arg |-> arg, opts |-> opts,
     phase |-> IF promise.state = "pending" THEN "awaiting" ELSE "settled",
     promise |-> promise,
     tasks |-> IF promise.state = "pending"
               THEN <<[promise |-> Pending, url |-> url, started |-> TRUE,
                       outcome |-> NoOutcome]>>
               ELSE <<>>,
     path |-> path]

\* a single-fetch call whose fetch has settled
settledCall(call, promise, outcome) ==
    [call EXCEPT !.phase = "settled", !.promise = promise,
                 !.tasks[1].promise = promise, !.tasks[1].outcome = outcome]

CallScanTextFiles ==
    /\ svc.phase = "idle"
    /\ \E folderPath \in FolderInputs :
          LET sc == scanTextFilesStart(folderPath, now)
          IN  svc' = startedCall("scanTextFiles", folderPath, defaultOptions,
                                 sc.promise, sc.url, sc.normalizedPath)
    /\ UNCHANGED <<now, pageVars, otherVars>>

ScanManifestSettles ==
    /\ svc.op = "scanTextFiles" /\ svc.phase = "awaiting"
    /\ \E outcome \in ManifestOutcomes :
          svc' = settledCall(svc, scanTextFilesResume(svc.path, outcome, now), outcome)
    /\ UNCHANGED <<now, pageVars, otherVars>>

CallGetFileInfo ==
    /\ svc.phase = "idle"
    /\ \E filePath \in PathInputs :
          LET g == getFileInfoStart(filePath, now)
          IN  svc' = startedCall("getFileInfo", filePath, defaultOptions,
                                 g.promise, g.url, g.url)
    /\ UNCHANGED <<now, pageVars, otherVars>>

GetFileInfoFetchSettles ==
    /\ svc.op = "getFileInfo" /\ svc.phase = "awaiting"
    /\ \E outcome \in DocumentOutcomes :
          svc' = settledCall(svc, getFileInfoResume(svc.path, outcome, now), outcome)
    /\ UNCHANGED <<now, pageVars, otherVars>>

CallReadTextFile ==
    /\ svc.phase = "idle"
    /\ \E filePath \in PathInputs :
          LET r == readTextFileStart(filePath, now)
          IN  svc' = startedCall("readTextFile", filePath, defaultOptions,
                                 r.promise, r.url, r.url)
    /\ UNCHANGED <<now, pageVars, otherVars>>

ReadTextFileFetchSettles ==
    /\ svc.op = "readTextFile" /\ svc.phase = "awaiting"
    /\ \E outcome \in ContentOutcomes :
          svc' = settledCall(svc, readTextFileResume(svc.path, outcome, now), outcome)
    /\ UNCHANGED <<now, pageVars, otherVars>>

\* readTextFileWithFormatting: `await this.readTextFile(filePath)`, then format
formatResume(inner, opts, ts) ==
    IF inner.state = "rejected" THEN settle(catchAll(Throw(inner.reason), ts))
    ELSE settle(catchAll(formatFetched(inner.value, opts), ts))

CallReadTextFileWithFormatting ==
    /\ svc.phase = "idle"
    /\ \E filePath \in PathInputs, opts \in OptionInputs :
          LET r == readTextFileStart(filePath, now)
              p == IF r.promise.state = "pending" THEN Pending
                   ELSE formatResume(r.promise, opts, now)
          IN  svc' = startedCall("readTextFileWithFormatting", filePath, opts,
                                 p, r.url, r.url)
    /\ UNCHANGED <<now, pageVars, otherVars>>

FormattingFetchSettles ==
    /\ svc.op = "readTextFileWithFormatting" /\ svc.phase = "awaiting"
    /\ \E outcome \in ContentOutcomes :
          LET inner == readTextFileResume(svc.path, outcome, now)
          IN  svc' = settledCall(svc, formatResume(inner, svc.opts, now), outcome)
    /\ UNCHANGED <<now, pageVars, otherVars>>

\* readMultipleTextFiles once its reads have been started: settled when
\* Promise.allSettled is
readMultipleResume(filePaths, started, ts) ==
    IF started.c = "throw" THEN settle(catchAll(started, ts))
    ELSE IF allSettled(promisesOf(started.v))
         THEN settle(catchAll(readMultipleFinish(filePaths, promisesOf(started.v), ts), ts))
         ELSE Pending

CallReadMultipleTextFiles ==
    /\ svc.phase = "idle"
    /\ \E filePaths \in FileListInputs :
          LET started == readMultipleStart(filePaths, now)
              p == readMultipleResume(filePaths, started, now)
          IN  svc' = [op |-> "readMultipleTextFiles", arg |-> filePaths,
                      opts |-> defaultOptions,
                      phase |-> IF p.state = "pending" THEN "awaiting" ELSE "settled",
                      promise |-> p,
                      tasks |-> IF started.c = "throw" THEN <<>> ELSE started.v,
                      path |-> <<>>]
    /\ UNCHANGED <<now, pageVars, otherVars>>

ReadMultipleFetchSettles(i) ==
    /\ svc.op = "readMultipleTextFiles" /\ svc.phase = "awaiting"
    /\ i \in 1..Len(svc.tasks)
    /\ svc.tasks[i].promise.state = "pending"
    /\ \E outcome \in ContentOutcomes :
          LET done == [svc.tasks EXCEPT
                          ![i].promise = readTextFileResume(svc.tasks[i].url, outcome, now),
                          ![i].outcome = outcome]
              p == readMultipleResume(svc.arg, Return(done), now)
          IN  svc' = [svc EXCEPT !.tasks = done, !.promise = p,
                                 !.phase = IF p.state = "pending" THEN "awaiting"
                                           ELSE "settled"]
    /\ UNCHANGED <<now, pageVars, otherVars>>

\* time passes
Tick ==
    /\ now < MaxClock
    /\ now' = now + 1
    /\ UNCHANGED <<pageVars, svc, otherVars>>

(***************************************************************************)
(* Slugs: Stories.handleStoryClick and Story.loadStory.                    *)
(***************************************************************************)
\* s.replace(/[^a-zA-Z0-9\s]/g, ''): only letters, digits, whitespace stay
removeNonAlnum(s) ==
    SelectSeq(s, LAMBDA c : IsLower(c) \/ IsUpper(c) \/ IsDigit(c) \/ IsSpace(c))

\* s.replace(/\s+/g, r): every maximal run of whitespace becomes r
replaceSpaceRuns(s, r) ==
    LET idx  == [i \in 1..Len(s) |-> i]
        kept == SelectSeq(idx, LAMBDA i : ~(IsSpace(s[i]) /\ i > 1 /\ IsSpace(s[i - 1])))
    IN  [k \in 1..Len(kept) |-> IF IsSpace(s[kept[k]]) THEN r ELSE s[kept[k]]]

\* a slug in which every whitespace character becomes its own "-"
storyTitle_DashPerSpace(title) ==
    toLowerCase([i \in 1..Len(removeNonAlnum(title)) |->
                    IF IsSpace(removeNonAlnum(title)[i]) THEN "-"
                    ELSE removeNonAlnum(title)[i]])

\* handleStoryClick: const storyTitle = story.title.replace(...)...
storyTitle(title) == toLowerCase(replaceSpaceRuns(removeNonAlnum(title), "-"))

\* loadStory, find callback: const storyTitle = story.title.replace(...)...
storyTitleInStory(title) == toLowerCase(replaceSpaceRuns(removeNonAlnum(title), "-"))

(***************************************************************************)
(* Navigation to a story: Stories.handleStoryClick, the routes of App and  *)
(* the Story component.                                                    *)
(***************************************************************************)
\* <Route path="/story/:title">: the parameter may not be empty
matchRoute(title) ==
    IF title = <<>> THEN [route |-> "none"]
    ELSE [route |-> "/story/:title", title |-> title]

\* the JSX of Story: it reads story.title whatever the state is
renderStory(state) ==
    IF state.story = JsNull
    THEN Throw(TypeError(<<"Cannot read properties of null (reading 'title')">>))
    ELSE Return([t |-> "story", title |-> state.story.title,
                 fileSize |-> state.story.fileSize,
                 lineCount |-> state.story.lineCount,
                 wordCount |-> state.story.wordCount,
                 characterCount |-> state.story.characterCount,
                 lines |-> split(state.story.content, "\n")])

\* useState(null), useState(true), useState(null)
initialStoryState == [story |-> JsNull, loading |-> TRUE, error |-> JsNull]

noStory == [pc |-> "unmounted"]

\* the first render of Story for a title parameter. A render that throws is
\* never committed: the effect that calls loadStory does not run and, with
\* no error boundary in App, the whole tree is removed.
mountStory(title) ==
    LET rendered == renderStory(initialStoryState)
    IN  [pc |-> IF rendered.c = "throw" THEN "crashed" ELSE "effect",
         title |-> title,
         state |-> initialStoryState,
         rendered |-> rendered]

\* what the router shows for a matched location
showRoute(loc) ==
    IF loc.route = "/story/:title" THEN mountStory(loc.title) ELSE noStory

(***************************************************************************)
(* AppRoutesWithTransition: the blackhole overlay and the fade of the page *)
(* between routes.  Time is counted in units of 100 ms; a timer holds the  *)
(* time left until it is due.                                              *)
(***************************************************************************)
\* setTimeout(..., 1000) of the effect
BlackholeDelay == 10

\* setTimeout(..., 100) inside the blackhole timer
FadeDelay == 1

NoTimer == 0 - 1

\* useState(false), useState(1); the effect of the first render is pending
mountedShell ==
    [mounted |-> TRUE, effectPending |-> TRUE, showBlackhole |-> FALSE,
     opacity |-> 1, blackholeTimer |-> NoTimer, fadeTimers |-> {},
     sinceEffect |-> 0, changes |-> 0]

\* the shell after a render for a new location: its effect is to run, or,
\* when the page it shows threw, the whole tree is removed and the cleanup of
\* the last effect clears its blackhole timer
rendered(sh, view) ==
    IF ~sh.mounted THEN sh
    ELSE IF view.pc = "crashed"
         THEN [sh EXCEPT !.mounted = FALSE, !.effectPending = FALSE,
                         !.blackholeTimer = NoTimer]
         ELSE [sh EXCEPT !.effectPending = TRUE]

\* the cleanup of the previous effect (clearTimeout(blackholeTimer)), then
\* the effect: setOpacity(0), setShowBlackhole(true), setTimeout(..., 1000)
effect(sh) ==
    [sh EXCEPT !.effectPending = FALSE,
               !.opacity = 0,
               !.showBlackhole = TRUE,
               !.blackholeTimer = BlackholeDelay,
               !.sinceEffect = 0]

\* the callback of the blackhole timer
blackholeTimerFires(sh) ==
    [sh EXCEPT !.blackholeTimer = NoTimer,
               !.showBlackhole = FALSE,
               !.fadeTimers = @ \cup {FadeDelay}]

\* the callback of a fade timer; a state update of a removed component is
\* dropped
fadeTimerFires(sh) ==
    [sh EXCEPT !.fadeTimers = @ \ {0},
               !.opacity = IF sh.mounted THEN 1 ELSE @]

MaxRouteChanges == 3

Routes == {"/", "/stories", "/story/:title", "/games"}

\* the location of a route, with a title where the route has one
locationOf(route) ==
    IF route = "/story/:title" THEN matchRoute(<<"t","o">>) ELSE [route |-> route]

\* useEffect(..., [location]) runs after the render
RunEffect ==
    /\ shell.mounted /\ shell.effectPending
    /\ shell' = effect(shell)
    /\ UNCHANGED <<now, pageVars, svc, analysis, location, storyView, visit, tool>>

\* the user follows a link: the routes are rendered for the new location
Navigate(route) ==
    /\ shell.mounted /\ ~shell.effectPending
    /\ shell.changes < MaxRouteChanges
    /\ location' = locationOf(route)
    /\ storyView' = showRoute(location')
    /\ shell' = [rendered(shell, storyView') EXCEPT !.changes = @ + 1]
    /\ IF route = "/stories"
       THEN /\ setPage(mountedStories)
            /\ scan' = noScan /\ fetches' = <<>> /\ settleOrder' = <<>>
       ELSE /\ setPage([page EXCEPT !.pc = "unmounted"])
            /\ UNCHANGED <<scan, fetches, settleOrder>>
    /\ UNCHANGED <<now, svc, analysis, visit, tool>>

\* the blackhole timer is due
BlackholeTimerFires ==
    /\ shell.blackholeTimer = 0
    /\ shell' = blackholeTimerFires(shell)
    /\ UNCHANGED <<now, pageVars, svc, analysis, location, storyView, visit, tool>>

\* a fade timer is due
FadeTimerFires ==
    /\ 0 \in shell.fadeTimers
    /\ shell' = fadeTimerFires(shell)
    /\ UNCHANGED <<now, pageVars, svc, analysis, location, storyView, visit, tool>>

\* 100 ms pass: no effect is waiting to run and no timer is due
Advance ==
    /\ ~shell.effectPending
    /\ shell.blackholeTimer # 0
    /\ 0 \notin shell.fadeTimers
    /\ \/ shell.blackholeTimer # NoTimer
       \/ shell.fadeTimers # {}
       \/ shell.sinceEffect < BlackholeDelay + FadeDelay
    /\ shell' = [shell EXCEPT
                    !.blackholeTimer = IF @ = NoTimer THEN @ ELSE @ - 1,
                    !.fadeTimers = {x - 1 : x \in @},
                    !.sinceEffect = IF @ < BlackholeDelay + FadeDelay THEN @ + 1 ELSE @]
    /\ UNCHANGED <<now, pageVars, svc, analysis, location, storyView, visit, tool>>

\* a click on the i-th card of the Stories page
HandleStoryClick(i) ==
    /\ location.route = "/stories"
    /\ i \in 1..Len(stories)
    /\ location' = matchRoute(storyTitle(stories[i].title))
    /\ storyView' = showRoute(location')
    /\ shell' = rendered(shell, storyView')
    /\ UNCHANGED <<now, pageVars, svc, analysis, visit, tool>>

\* title parameters of a URL typed by the user
TitleParams == {<<"a">>, <<"t","o">>, <<"z","z","z">>}

\* the application opened on /story/<title>: Stories is not mounted
OpenStoryUrl ==
    /\ location.route = "/stories"
    /\ storiesPc = "mounted"
    /\ \E title \in TitleParams :
          /\ location' = matchRoute(title)
          /\ storyView' = showRoute(location')
          /\ shell' = rendered(shell, storyView')
    /\ storiesPc' = "unmounted"
    /\ UNCHANGED <<now, stories, loading, error, scan, tasks, fetches, settleOrder,
                   svc, analysis, visit, tool>>

\* the title parameter changes while the Story route is shown (another
\* /story/<title> URL is opened): Story is rendered for the new parameter
ChangeTitleParam ==
    /\ location.route = "/story/:title"
    /\ \E title \in TitleParams \ {location.title} :
          /\ location' = matchRoute(title)
          /\ storyView' = showRoute(location')
          /\ shell' = rendered(shell, storyView')
    /\ UNCHANGED <<now, pageVars, svc, analysis, visit, tool>>

(***************************************************************************)
(* ManifestUpdater (the manifest tool).  A directory is the list of its    *)
(* items in readdirSync order; an item is a regular file, a directory, or  *)
(* a name statSync fails on (a dangling link), and a file can be           *)
(* unreadable.                                                             *)
(***************************************************************************)
\* a first-line rule without the check on the number of non-blank lines
updaterIsStoryFile_AnyLength(fileName, firstLine, content) ==
    LET fileNameLower == toLowerCase(fileName)
    IN  ~(\/ includes(fileNameLower, Readme)
          \/ includes(fileNameLower, Manifest)
          \/ includes(fileNameLower, License)
          \/ includes(fileNameLower, Changelog)
          \/ includes(fileNameLower, Contributing))

\* ManifestUpdater.isStoryFile
updaterIsStoryFile(fileName, firstLine, content) ==
    LET fileNameLower == toLowerCase(fileName)
    IN  IF \/ includes(fileNameLower, Readme)
           \/ includes(fileNameLower, Manifest)
           \/ includes(fileNameLower, License)
           \/ includes(fileNameLower, Changelog)
           \/ includes(fileNameLower, Contributing)
        THEN FALSE
        ELSE LET lines == SelectSeq(split(content, "\n"),
                                    LAMBDA line : Len(trim(line)) > 0)
             IN  ~(Len(lines) < 2)

\* a title rule that title-cases the file name without lower-casing its tail
updaterExtractTitle_KeepsCase(firstLine, fileName) ==
    IF /\ firstLine # <<>>
       /\ Len(firstLine) < 100
       /\ IsUpper(firstLine[1])
       /\ ~includes(firstLine, Http)
       /\ ~includes(firstLine, Www)
    THEN firstLine
    ELSE LET tokens == splitRuns(fileName, TitleSepChars)
         IN  join([i \in 1..Len(tokens) |->
                      IF tokens[i] = <<>> THEN <<>>
                      ELSE <<toUpperChar(tokens[i][1])>> \o Tail(tokens[i])],
                  <<" ">>)

\* ManifestUpdater.extractTitle
updaterExtractTitle(firstLine, fileName) ==
    IF /\ firstLine # <<>>
       /\ Len(firstLine) < 100
       /\ Len(firstLine) > 0
       /\ IsUpper(firstLine[1])
       /\ ~includes(firstLine, Http)
       /\ ~includes(firstLine, Www)
    THEN firstLine
    ELSE LET tokens == splitRuns(fileName, TitleSepChars)
         IN  join([i \in 1..Len(tokens) |->
                      IF tokens[i] = <<>> THEN <<>>
                      ELSE <<toUpperChar(tokens[i][1])>>
                           \o toLowerCase(sliceFrom(tokens[i], 1))],
                  <<" ">>)

\* ManifestUpdater.generateFileInfo
updaterGenerateFileInfo(content, fileName) ==
    LET lines == split(content, "\n")
        ws    == SelectSeq(splitRuns(trim(content), SpaceChars),
                           LAMBDA word : Len(word) > 0)
        n     == numberToString(Len(lines))
        base  == IF Len(lines) <= 1 THEN <<"Single line text file">>
                 ELSE IF Len(lines) <= 10
                      THEN <<"Short story with ">> \o n \o <<" lines">>
                 ELSE IF Len(lines) <= 50
                      THEN <<"Medium story with ">> \o n \o <<" lines">>
                 ELSE <<"Long story with ">> \o n \o <<" lines">>
    IN  base
        \o <<" (">> \o numberToString(Len(ws)) \o <<" words)">>
        \o (IF includes(content, Http) \/ includes(content, Www)
            THEN <<" - Contains links">> ELSE <<>>)
        \o (IF includes(content, <<"@">>)
            THEN <<" - Contains email addresses">> ELSE <<>>)
        \o (IF matchesDate(content)
            THEN <<" - Contains dates">> ELSE <<>>)

\* the entry scanDirectory pushes for a file it keeps
updaterFileInfo(item, content) ==
    LET firstLine == trim(split(content, "\n")[1])
    IN  [path |-> Str(StoryTxtFolder \o item),
         title |-> updaterExtractTitle(firstLine, replace(item, DotTxt, <<>>)),
         info |-> updaterGenerateFileInfo(content, item)]

\* the entry scanDirectory pushes in its catch block
updaterFallback ==
    [path |-> Str(StoryTxtFolder \o ExampleTxt),
     title |-> <<"Example Text File">>,
     info |-> <<"Sample text file for testing the TextFileReaderService with multiple lines and features demonstration">>]

\* the loop body throws on this item: statSync fails, or readFileSync does
scanThrowsOn(it) ==
    \/ it.kind = "gone"
    \/ /\ it.kind = "file"
       /\ endsWith(toLowerCase(it.name), DotTxt)
       /\ ~it.readable

\* the loop body pushes an entry for this item
scanKeeps(it) ==
    /\ it.kind = "file"
    /\ endsWith(toLowerCase(it.name), DotTxt)
    /\ updaterIsStoryFile(it.name, trim(split(it.content, "\n")[1]), it.content)

\* ManifestUpdater.scanDirectory: the loop runs up to the first item it
\* throws on; the catch block adds the fallback entry to what was pushed
scanDirectory(dir) ==
    IF ~dir.listable THEN <<updaterFallback>>
    ELSE LET items   == dir.items
             throws  == {i \in 1..Len(items) : scanThrowsOn(items[i])}
             stop    == IF throws = {} THEN Len(items) + 1
                        ELSE CHOOSE i \in throws : \A j \in throws : i <= j
             kept    == SelectSeq(SubSeq(items, 1, stop - 1), scanKeeps)
             files   == [k \in 1..Len(kept) |->
                            updaterFileInfo(kept[k].name, kept[k].content)]
         IN  IF throws = {} THEN files ELSE Append(files, updaterFallback)

\* a manifest that also stamps every entry with the time of the scan
manifestOf_StampedEntries(textFiles, ts) ==
    [folderPath |-> StoryTxtFolder,
     generatedAt |-> ts,
     textFiles |-> [k \in 1..Len(textFiles) |->
                       [path |-> textFiles[k].path, title |-> textFiles[k].title,
                        info |-> textFiles[k].info, scannedAt |-> ts]],
     totalFiles |-> Len(textFiles),
     scanMethod |-> "auto-updated",
     version |-> "1.1.0"]

\* the manifest object updateManifest builds
manifestOf(textFiles, ts) ==
    [folderPath |-> StoryTxtFolder,
     generatedAt |-> ts,
     textFiles |-> textFiles,
     totalFiles |-> Len(textFiles),
     scanMethod |-> "auto-updated",
     version |-> "1.1.0"]

MaxItems == 2

MaxRuns == 2

File(name, content) ==
    [name |-> name, kind |-> "file", readable |-> TRUE, content |-> content]

\* the items a story directory is made of
ItemUniverse ==
    {File(<<"a",".","t","x","t">>, ContentOne),
     File(<<"a",".","t","x","t">>, <<"T","o","\n"," ","\n">>),
     File(<<"m","y","_","B",".","T","X","T">>, <<"w","w","w","\n","\n","@"," ","x">>),
     File(<<"R","e","a","d","M","e",".","t","x","t">>, ContentOne),
     File(<<"x",".","T","x","t">>, <<"t","o","\n","b","e">>),
     File(<<"t","h","e","-","l","o","n","g","_","N","I","G","H","T",".","t","x","t">>,
          <<"h","t","t","p",":","/","/","x","\n","2","0","2","4","-","0","1","-","0","2">>),
     File(<<"n",".","m","d">>, ContentOne),
     File(<<"c",".","t","x","t">>, <<" ","\n","t","o","\t","\n","b","e">>),
     [name |-> <<"d",".","t","x","t">>, kind |-> "file", readable |-> FALSE,
      content |-> <<>>],
     [name |-> <<"s",".","t","x","t">>, kind |-> "dir", readable |-> FALSE,
      content |-> <<>>],
     [name |-> <<"g",".","t","x","t">>, kind |-> "gone", readable |-> FALSE,
      content |-> <<>>],
     [name |-> FileManifestJson, kind |-> "dir", readable |-> FALSE,
      content |-> <<>>]}

\* directories of up to MaxItems items with distinct names, and one that
\* cannot be listed
Directories ==
    {[listable |-> TRUE, items |-> its] :
        its \in {q \in SeqsUpTo(ItemUniverse, MaxItems) :
                    \A i, j \in 1..Len(q) : q[i].name = q[j].name => i = j}}
    \cup {[listable |-> FALSE, items |-> <<>>]}

notRun == [runs |-> 0, dir |-> JsNull, last |-> JsNull, previous |-> JsNull]

\* the position of the manifest file among the items, 0 when there is none
manifestAt(items) ==
    IF \E i \in 1..Len(items) : items[i].name = FileManifestJson
    THEN CHOOSE i \in 1..Len(items) : items[i].name = FileManifestJson
    ELSE 0

\* fs.writeFileSync(manifestPath, ...) can succeed: the directory exists and
\* the path does not name a directory
writable(dir) ==
    /\ dir.listable
    /\ manifestAt(dir.items) # 0 => dir.items[manifestAt(dir.items)].kind = "file"

\* the directories a successful write can leave: the manifest file replaced
\* where it is, or created at some position of the listing
dirsAfterWrite(dir, manifest) ==
    LET file == [name |-> FileManifestJson, kind |-> "file", readable |-> TRUE,
                 content |-> manifest]
        at   == manifestAt(dir.items)
    IN  IF at # 0 THEN {[dir EXCEPT !.items[at] = file]}
        ELSE {[dir EXCEPT !.items = SubSeq(@, 1, k) \o <<file>>
                                     \o SubSeq(@, k + 1, Len(@))] :
                 k \in 0..Len(dir.items)}

\* `node update-manifest.js`: the whole of updateManifest, on the directory
\* as it is (any directory at the first run)
UpdateManifest ==
    /\ tool.runs < MaxRuns
    /\ \E dir \in (IF tool.dir = JsNull THEN Directories ELSE {tool.dir}) :
       \E written \in (IF writable(dir) THEN {TRUE, FALSE} ELSE {FALSE}) :
          LET manifest == manifestOf(scanDirectory(dir), now)
          IN  \E after \in (IF written THEN dirsAfterWrite(dir, manifest) ELSE {dir}) :
                 tool' = [runs |-> tool.runs + 1,
                          dir |-> after,
                          last |-> [dir |-> dir,
                                    manifest |-> IF written THEN manifest ELSE JsNull],
                          previous |-> tool.last]
    /\ UNCHANGED <<now, pageVars, svc, analysis, location, storyView, visit, shell>>

\* the items of a listing other than the manifest file
otherItems(items) == SelectSeq(items, LAMBDA it : it.name # FileManifestJson)

\* between two runs an author removes the first item of the directory, or
\* adds a story to it
AuthorEdits ==
    /\ tool.dir # JsNull
    /\ tool.dir.listable
    /\ tool.runs < MaxRuns
    /\ otherItems(tool.dir.items) = otherItems(tool.last.dir.items)
    /\ \E items \in
            (IF tool.dir.items # <<>> THEN {Tail(tool.dir.items)} ELSE {})
            \cup {Append(tool.dir.items, it) :
                     it \in {x \in ItemUniverse :
                                /\ Len(otherItems(tool.dir.items)) < MaxItems
                                /\ x.kind = "file" /\ x.readable
                                /\ \A i \in 1..Len(tool.dir.items) :
                                      tool.dir.items[i].name # x.name}} :
          tool' = [tool EXCEPT !.dir.items = items]
    /\ UNCHANGED <<now, pageVars, svc, analysis, location, storyView, visit, shell>>

(***************************************************************************)
(* The text analyzer called directly.                                      *)
(***************************************************************************)
\* a string of n copies of one character
repeat(c, n) == [i \in 1..n |-> c]

TheLongNight == <<"T","h","e"," ","L","o","n","g"," ","N","i","g","h","t">>

\* first lines: empty, titles, lower-case and digit starts, links, and lines
\* of 99, 100 and 101 characters
FirstLineInputs ==
    {<<>>, TheLongNight, <<"A">>, <<"Z","z">>, <<"a","B">>, <<"1","A">>,
     <<" ","A">>, <<"[","A">>,
     <<"h","t","t","p",":","/","/","x">>,
     <<"S","e","e"," ","h","t","t","p",":","/","/","x">>,
     <<"G","o"," ","w","w","w",".","x">>,
     <<"H","T","T","P"," ","W","W","W">>,
     <<"A","t"," ","w","w"," ","h","t","t"," ","p">>,
     repeat("A", 99), repeat("A", 100), repeat("A", 101)}

\* file names: empty, single tokens, every separator, runs of separators,
\* leading and trailing separators, mixed letter case
FileNameInputs ==
    {<<>>, <<"c","h","1">>, <<"m","y","-","s","t","o","r","y">>,
     <<"m","y","_","s","T","O","R","Y">>, <<"a"," ","b","\t","c">>,
     <<"a","-","_"," ","b">>, <<"-","l","e","a","d">>, <<"e","n","d","_">>,
     <<"-","-">>, <<"X">>, <<"2","n","d","-","d","R","A","F","T">>}

\* k lines, each `line`
linesOf(line, k) == join(repeat(line, k), <<"\n">>)

\* contents of 1, 2, 10, 11, 50 and 51 lines, with and without words
LineContents ==
    {linesOf(l, k) : l \in {<<>>, <<"a">>, <<"a"," ","b">>},
                     k \in {1, 2, 3, 9, 10, 11, 12, 49, 50, 51, 52}}
    \cup {<<" ">>, <<"a","\n">>, <<"\n","\t","a">>, <<"a"," "," ","b"," ">>,
          <<" ","a","\t","\n"," ","b","\r","\n">>}

HintFragments ==
    {<<"h","t","t","p">>, <<"w","w","w">>, <<"@">>,
     <<"2","0","2","4","-","0","1","-","0","2">>}

\* every arrangement of up to three different hint triggers, on one line or
\* on separate lines, and strings that come close to a trigger
HintContents ==
    {join(p, sep) : p \in {q \in SeqsUpTo(HintFragments, 3) :
                              \A i, j \in DOMAIN q : i # j => q[i] # q[j]},
                    sep \in {<<" ">>, <<"\n">>}}
    \cup {<<"h","t","t"," ","p">>, <<"w","w"," ","w">>, <<"H","T","T","P">>,
          <<"W","w","w">>,
          <<"1","9","9","-","1","2","-","3","1">>,
          <<"2","0","2","4","-","1","-","0","2">>,
          <<"2","0","2","4","-","0","1","-","0">>,
          <<"2","0","2","4","/","0","1","/","0","2">>,
          <<"1","2","3","4","5","-","6","7","-","8","9","0">>}

ContentInputs == LineContents \cup HintContents

\* titles: plain, punctuated, hyphenated, with runs of whitespace, with
\* leading and trailing whitespace, without any letter
TitleInputs ==
    {<<>>, TheLongNight, <<"M","y"," ","S","t","o","r","y">>,
     <<"a"," ","-"," ","b">>, <<" ","A"," "," ","b"," ">>,
     <<"H","i",","," ","Y","o","u","!">>, <<"x","_","y">>, <<"a","-","b">>,
     <<"A","\t","B","\n"," ","C">>, <<"!","!","!">>, <<"-","-">>,
     <<"2","n","d"," ","D","r","a","f","t">>, <<"#","t","&">>,
     <<"B",".","t","x","t">>, <<"a"," ","."," ","b">>}

noAnalysis == [op |-> "none"]

\* the slug computed by a click on a story and by the Story view
CallStoryTitle ==
    /\ \E title \in TitleInputs :
          analysis' = [op |-> "storyTitle", title |-> title,
                       result |-> storyTitle(title),
                       matched |-> storyTitleInStory(title)]
    /\ UNCHANGED <<now, pageVars, svc, location, storyView, visit, tool, shell>>

CallGenerateFileInfo ==
    /\ \E content \in ContentInputs, fileName \in {<<>>, <<"c","h","1">>} :
          analysis' = [op |-> "generateFileInfo", content |-> content,
                       fileName |-> fileName,
                       result |-> generateFileInfo(content, fileName)]
    /\ UNCHANGED <<now, pageVars, svc, location, storyView, visit, tool, shell>>

CallExtractTitle ==
    /\ \E firstLine \in FirstLineInputs, fileName \in FileNameInputs :
          analysis' = [op |-> "extractTitle", firstLine |-> firstLine,
                       fileName |-> fileName,
                       result |-> extractTitle(firstLine, fileName)]
    /\ UNCHANGED <<now, pageVars, svc, location, storyView, visit, tool, shell>>

Init ==
    /\ now = 0
    /\ stories = <<>>
    /\ loading = TRUE
    /\ error = JsNull
    /\ storiesPc = "mounted"
    /\ scan = noScan
    /\ tasks = <<>>
    /\ fetches = <<>>
    /\ settleOrder = <<>>
    /\ svc = idleCall
    /\ analysis = noAnalysis
    /\ location = [route |-> "/stories"]
    /\ storyView = noStory
    /\ visit = firstVisit
    /\ tool = notRun
    /\ shell = mountedShell

NextListing ==
    \/ LoadStoriesStart
    \/ ManifestFetchSettles
    \/ \E i \in 1..MaxManifest : ContentFetchSettles(i)

SpecListing == Init /\ [][NextListing]_vars

NextService ==
    \/ CallScanTextFiles
    \/ ScanManifestSettles
    \/ CallGetFileInfo
    \/ GetFileInfoFetchSettles
    \/ CallReadTextFile
    \/ ReadTextFileFetchSettles
    \/ CallReadTextFileWithFormatting
    \/ FormattingFetchSettles
    \/ CallReadMultipleTextFiles
    \/ \E i \in 1..MaxFiles : ReadMultipleFetchSettles(i)
    \/ Tick

SpecService == Init /\ [][NextService]_vars

NextAnalyzer ==
    \/ CallExtractTitle
    \/ CallGenerateFileInfo
    \/ CallStoryTitle

SpecAnalyzer == Init /\ [][NextAnalyzer]_vars

NextSite ==
    \/ LoadStoriesStart
    \/ ManifestFetchSettles
    \/ \E i \in 1..MaxManifest : ContentFetchSettles(i)
    \/ \E i \in 1..MaxManifest : HandleStoryClick(i)
    \/ OpenStoryUrl
    \/ ChangeTitleParam

SpecSite == Init /\ [][NextSite]_vars

NextShell ==
    \/ RunEffect
    \/ \E route \in Routes : Navigate(route)
    \/ BlackholeTimerFires
    \/ FadeTimerFires
    \/ Advance

SpecShell == Init /\ [][NextShell]_vars

NextTool ==
    \/ UpdateManifest
    \/ AuthorEdits
    \/ Tick

SpecTool == Init /\ [][NextTool]_vars

NextRevisit ==
    \/ LoadStoriesStart
    \/ ManifestFetchSettles
    \/ \E i \in 1..MaxManifest : ContentFetchSettles(i)
    \/ RevisitStories

SpecRevisit == Init /\ [][NextRevisit]_vars

(***************************************************************************)
(* Properties of the listing (Stories.loadStories over the scanner).       *)
(***************************************************************************)
\* a document fetch that delivered a body: an OK response that could be read
fetchSucceeded(outcome) ==
    /\ outcome.k = "response"
    /\ outcome.status \in 200..299
    /\ outcome.readable

\* the manifest could be loaded: an OK response whose body is valid JSON
manifestLoaded(outcome) ==
    /\ outcome.k = "response"
    /\ outcome.status \in 200..299
    /\ outcome.readable
    /\ outcome.body.json

scanSettled == scan.outcome # NoOutcome

\* the entries the settled scanTextFiles call of the page returned
scannedFiles == scan.call.promise.value.data.files

okTasks == SelectSeq(tasks, LAMBDA x : fetchSucceeded(x.outcome))

\* C1: partial success of a listing. When loadStories has finished, the error
\* state is not set, there is one task per entry the scan returned, and the
\* published list holds exactly one record per entry whose content fetch
\* succeeded, in manifest order, carrying that entry's path and fetched body.
C1_PartialSuccess ==
    storiesPc = "done" =>
        /\ error = JsNull
        /\ loading = FALSE
        /\ Len(tasks) = Len(scannedFiles)
        /\ \A i \in 1..Len(tasks) : tasks[i].url = scannedFiles[i].path.s
        /\ Len(stories) = Len(okTasks)
        /\ \A j \in 1..Len(stories) :
              /\ stories[j].path = okTasks[j].url
              /\ stories[j].content = okTasks[j].outcome.body

\* three entries, the 2nd fails with a 404, the 1st and 3rd are listed
C1_Witness ==
    /\ storiesPc = "done"
    /\ Len(tasks) = 3
    /\ fetchSucceeded(tasks[1].outcome)
    /\ tasks[2].outcome.k = "response" /\ tasks[2].outcome.status = 404
    /\ fetchSucceeded(tasks[3].outcome)
    /\ Len(stories) = 2
    /\ stories[1].path = tasks[1].url
    /\ stories[2].path = tasks[3].url
    /\ error = JsNull

\* C2: settle-all join. Once the scan has returned, a content fetch has been
\* requested for every scanned entry, in order, before any of them settled;
\* nothing is published while a fetch is pending; a pending fetch can settle
\* whatever its siblings did; and the published list is the non-null callback
\* results in entry order, whatever the order of completion.
C2_SettleAllJoin ==
    /\ storiesPc \in {"awaitAll", "done"} =>
          /\ Len(tasks) = Len(scannedFiles)
          /\ \A i \in 1..Len(tasks) :
                tasks[i].started /\ tasks[i].url = scannedFiles[i].path.s
          /\ fetches = <<scan.call.url>> \o [i \in 1..Len(tasks) |-> tasks[i].url]
    /\ storiesPc # "done" => stories = <<>> /\ loading = TRUE
    /\ storiesPc = "done" =>
          /\ \A i \in 1..Len(tasks) : tasks[i].promise.state = "fulfilled"
          /\ Len(settleOrder) = Len(tasks)
          /\ stories = SelectSeq([i \in 1..Len(tasks) |-> tasks[i].promise.value],
                                 LAMBDA v : v # JsNull)
    /\ \A i \in 1..Len(tasks) :
          tasks[i].promise.state = "pending" => ENABLED ContentFetchSettles(i)

\* the fetches completed in the order 3, 1, 2, the 1st one failing
C2_Witness ==
    /\ storiesPc = "done"
    /\ settleOrder = <<3, 1, 2>>
    /\ ~fetchSucceeded(tasks[1].outcome)
    /\ Len(stories) = 2
    /\ stories[1].path = tasks[2].url
    /\ stories[2].path = tasks[3].url

\* the entries of a loaded manifest (none when textFiles is not an array)
manifestEntries(outcome) ==
    IF outcome.body.textFiles.t = "array" THEN outcome.body.textFiles.a ELSE <<>>

\* every entry of the manifest has a string path
wellFormed(outcome) ==
    /\ outcome.body.textFiles.t = "array"
    /\ \A i \in 1..Len(outcome.body.textFiles.a) :
          outcome.body.textFiles.a[i].path.t = "string"

AdminWords == {Readme, Manifest, License, Changelog, Contributing}

\* the filter rule, stated on the characters of the path: no administrative
\* word occurs at any position of the lower-cased path, and its last four
\* characters are ".txt"
keepsEntry(entry) ==
    LET l == toLowerCase(entry.path.s)
    IN  /\ \A w \in AdminWords : \A i \in 0..Len(l) : ~startsAt(l, w, i)
        /\ Len(l) >= 4
        /\ <<l[Len(l) - 3], l[Len(l) - 2], l[Len(l) - 1], l[Len(l)]>> = DotTxt

keptEntries(outcome) ==
    IF wellFormed(outcome) THEN SelectSeq(manifestEntries(outcome), keepsEntry)
    ELSE <<>>

\* base path + "/" (unless it ends with one) + "example.txt"
fallbackPath(folderPath) ==
    (IF folderPath[Len(folderPath)] = "/" THEN folderPath ELSE folderPath \o <<"/">>)
    \o ExampleTxt

Example == <<"e","x","a","m","p","l","e">>

UnavailableManifests == {o \in ManifestOutcomes : ~manifestLoaded(o)}

StringFolders == {f \in FolderInputs : f.t = "string" /\ f.s # <<>>}

\* C3 as claimed: with the manifest unreachable the listing returns exactly
\* one record, with fileName "example".
C3_FallbackAlwaysListed ==
    (storiesPc = "done" /\ ~manifestLoaded(scan.outcome)) =>
        /\ Len(stories) = 1
        /\ stories[1].fileName = Example

\* C3 amended: with the manifest unreachable (rejected fetch, non-OK response,
\* unreadable or non-JSON body) scanTextFiles succeeds with exactly one entry,
\* base path + "/" + "example.txt", for every base path; the listing then
\* holds exactly one record with fileName "example" if the fetch of that entry
\* succeeds and no record otherwise, and is a success either way.
C3_FallbackOnUnreachableManifest ==
    /\ (scanSettled /\ ~manifestLoaded(scan.outcome)) =>
          /\ scan.call.promise.state = "fulfilled"
          /\ scan.call.promise.value.success
          /\ scan.call.promise.value.data.totalFiles = 1
          /\ Len(scannedFiles) = 1
          /\ scannedFiles[1].path = Str(fallbackPath(StoryTxtFolder))
    /\ (storiesPc = "done" /\ ~manifestLoaded(scan.outcome)) =>
          /\ error = JsNull
          /\ IF fetchSucceeded(tasks[1].outcome)
             THEN Len(stories) = 1 /\ stories[1].fileName = Example
             ELSE stories = <<>>
    /\ \A f \in StringFolders : \A o \in UnavailableManifests :
          LET r == scanTextFilesResume(scanTextFilesStart(f, now).normalizedPath, o, now)
          IN  /\ r.state = "fulfilled"
              /\ r.value.success
              /\ Len(r.value.data.files) = 1
              /\ r.value.data.files[1].path = Str(fallbackPath(f.s))

C3_Witness ==
    /\ storiesPc = "done"
    /\ scan.outcome = FetchRejected
    /\ fetchSucceeded(tasks[1].outcome)
    /\ Len(stories) = 1
    /\ stories[1].fileName = Example

\* the direct scanTextFiles call of the client, once settled on a manifest
svcScanned ==
    /\ svc.op = "scanTextFiles"
    /\ svc.phase = "settled"
    /\ svc.tasks # <<>>

svcManifest == svc.tasks[1].outcome

svcResult == svc.promise.value

\* C4 as claimed: with the manifest loaded, every returned entry is an entry
\* of the manifest, and when no entry passes the filter the scan succeeds with
\* zero entries.
C4_FallbackOnlyWhenUnavailable ==
    (svcScanned /\ manifestLoaded(svcManifest)) =>
        /\ svcResult.success
        /\ \A i \in 1..Len(svcResult.data.files) :
              \E k \in 1..Len(manifestEntries(svcManifest)) :
                 svcResult.data.files[i] = manifestEntries(svcManifest)[k]
        /\ keptEntries(svcManifest) = <<>> => svcResult.data.totalFiles = 0

\* C4 amended: with the manifest loaded the scan succeeds; when at least one
\* entry passes the filter every returned entry is an entry of the manifest;
\* when none does (or textFiles is missing or malformed) the scan returns the
\* single hardcoded fallback entry, totalFiles = 1, rather than zero entries.
C4_FallbackWhenNothingRetained ==
    (svcScanned /\ manifestLoaded(svcManifest)) =>
        /\ svcResult.success
        /\ svcResult.data.totalFiles = Len(svcResult.data.files)
        /\ IF keptEntries(svcManifest) # <<>>
           THEN \A i \in 1..Len(svcResult.data.files) :
                   \E k \in 1..Len(manifestEntries(svcManifest)) :
                      svcResult.data.files[i] = manifestEntries(svcManifest)[k]
           ELSE /\ svcResult.data.totalFiles = 1
                /\ svcResult.data.files[1].path = Str(fallbackPath(svc.arg.s))

\* a loaded manifest that lists only a README yields the fallback entry
C4_Witness ==
    /\ svcScanned
    /\ manifestLoaded(svcManifest)
    /\ manifestEntries(svcManifest) = <<Entry(Str(PathReadme))>>
    /\ svcResult.data.totalFiles = 1
    /\ svcResult.data.files[1].path = Str(fallbackPath(svc.arg.s))

\* C5: manifest filter. For a loaded manifest the retained entries are exactly
\* the manifest entries, in manifest order, whose lower-cased path contains no
\* administrative word and ends with ".txt"; they are what the scan returns
\* when there is at least one; and "./docs/README.txt" is never scanned,
\* fetched or listed.
C5_ManifestFilter ==
    /\ (scanSettled /\ manifestLoaded(scan.outcome) /\ wellFormed(scan.outcome)) =>
          /\ storyFilesOf(scan.outcome.body) = Return(keptEntries(scan.outcome))
          /\ keptEntries(scan.outcome) # <<>> =>
                scannedFiles = keptEntries(scan.outcome)
    /\ scanSettled =>
          \A i \in 1..Len(scannedFiles) : scannedFiles[i].path # Str(PathReadme)
    /\ \A i \in 1..Len(fetches) : fetches[i] # PathReadme
    /\ \A i \in 1..Len(tasks) : tasks[i].url # PathReadme
    /\ \A j \in 1..Len(stories) : stories[j].path # PathReadme

\* a manifest listing a story, the README and a second story
C5_Witness ==
    /\ storiesPc = "done"
    /\ manifestLoaded(scan.outcome)
    /\ manifestEntries(scan.outcome)
          = <<Entry(Str(PathA)), Entry(Str(PathReadme)), Entry(Str(PathB))>>
    /\ scannedFiles = <<Entry(Str(PathA)), Entry(Str(PathB))>>
    /\ Len(stories) = 2

(***************************************************************************)
(* Properties of the service operations called directly.                   *)
(***************************************************************************)
\* the last four characters are "." then t, x, t in either letter case
hasTxtExtension(path) ==
    /\ Len(path) >= 4
    /\ path[Len(path) - 3] = "."
    /\ path[Len(path) - 2] \in {"t", "T"}
    /\ path[Len(path) - 1] \in {"x", "X"}
    /\ path[Len(path)] \in {"t", "T"}

nonEmptyString(v) == v.t = "string" /\ v.s # <<>>

\* the call settled with a failure result: success false, data null
svcFailed ==
    /\ svc.phase = "settled"
    /\ svc.promise.state = "fulfilled"
    /\ ~svc.promise.value.success
    /\ svc.promise.value.data = JsNull

\* C6: getFileInfo and readTextFile on a non-empty string path without the
\* ".txt" extension (in any letter case) fail with data null without
\* requesting anything; a path with the extension in any letter case passes
\* the check, so its content is requested.
C6_ExtensionCheck ==
    (svc.op \in {"getFileInfo", "readTextFile"} /\ nonEmptyString(svc.arg)) =>
        IF hasTxtExtension(svc.arg.s)
        THEN /\ Len(svc.tasks) = 1
             /\ svc.tasks[1].started
             /\ svc.tasks[1].url = svc.arg.s
        ELSE /\ svcFailed
             /\ svc.tasks = <<>>

C6_Witness ==
    /\ svc.op = "getFileInfo"
    /\ svc.arg = Str(PathMd)
    /\ svcFailed
    /\ svc.tasks = <<>>

\* C7: scanTextFiles on an empty string or a non-string fails with data null
\* and requests nothing; for every non-empty string the folderPath it reports
\* ends with "/" and equals the input when the input already ended with "/",
\* and the only request it makes is the one for the manifest.
C7_FolderPathCheck ==
    svc.op = "scanTextFiles" =>
        IF ~nonEmptyString(svc.arg)
        THEN /\ svcFailed
             /\ svc.tasks = <<>>
        ELSE /\ Len(svc.tasks) = 1
             /\ svc.tasks[1].url = svc.path \o FileManifestJson
             /\ svc.phase = "settled" =>
                   LET fp == svc.promise.value.data.folderPath
                   IN  /\ svc.promise.value.success
                       /\ fp[Len(fp)] = "/"
                       /\ svc.arg.s[Len(svc.arg.s)] = "/" => fp = svc.arg.s
                       /\ svc.arg.s[Len(svc.arg.s)] # "/" => fp = svc.arg.s \o <<"/">>

C7_Witness ==
    /\ svc.op = "scanTextFiles"
    /\ svc.arg = Str(<<>>)
    /\ svcFailed
    /\ svc.tasks = <<>>

\* the decimal digits of a three-digit HTTP status
statusDigits(status) ==
    <<DigitChars[(status \div 100) + 1],
      DigitChars[((status \div 10) % 10) + 1],
      DigitChars[(status % 10) + 1]>>

\* a settled getFileInfo call that did request the content
svcGotFile ==
    /\ svc.op = "getFileInfo"
    /\ svc.phase = "settled"
    /\ svc.tasks # <<>>

\* C8: getFileInfo on a valid ".txt" path whose content cannot be retrieved
\* fails with data null and a message carrying the detail (the status and
\* status text of a non-OK response, the reason of a rejected fetch); a
\* success record is only ever built from the body of an OK response.
C8_FetchFailure ==
    svcGotFile =>
        LET o == svc.tasks[1].outcome
            r == svc.promise.value
        IN  /\ svc.promise.state = "fulfilled"
            /\ ~fetchSucceeded(o) =>
                  /\ svcFailed
                  /\ r.error.message # <<>>
            /\ (o.k = "response" /\ o.status \notin 200..299) =>
                  r.error.message = <<"Failed to access file: ">>
                                    \o statusDigits(o.status) \o <<" ", o.statusText>>
            /\ o.k = "reject" => r.error.message = o.reason.message
            /\ r.success =>
                  /\ fetchSucceeded(o)
                  /\ r.data.content = o.body
                  /\ r.data.path = svc.arg.s

C8_Witness ==
    /\ svcGotFile
    /\ svc.tasks[1].outcome = Response(404, "Not Found", TRUE, ErrorPage)
    /\ svcFailed
    /\ svc.promise.value.error.message
          = <<"Failed to access file: ", "4", "0", "4", " ", "Not Found">>

\* C9: no exception escapes. The promise of every service call is never
\* rejected; once settled it holds a tagged result: success true with non-null
\* data and no error, or success false with data null and an error carrying a
\* non-empty message, a type and the time of the failure.
C9_NoExceptionEscapes ==
    /\ svc.promise.state # "rejected"
    /\ svc.phase = "settled" <=> svc.promise.state = "fulfilled"
    /\ svc.phase = "settled" =>
          LET r == svc.promise.value
          IN  /\ r.success \in BOOLEAN
              /\ r.success =>
                    /\ r.data # JsNull
                    /\ "error" \notin DOMAIN r
              /\ ~r.success =>
                    /\ r.data = JsNull
                    /\ r.error.message # <<>>
                    /\ r.error.type \in {"Error", "TypeError"}
                    /\ r.error.timestamp \in 0..now

\* a batch read in which one file failed and one was read
C9_Witness ==
    /\ svc.op = "readMultipleTextFiles"
    /\ svc.phase = "settled"
    /\ svc.promise.value.success
    /\ svc.promise.value.data.failedCount = 1
    /\ svc.promise.value.data.successfulCount = 1

\* the failure class of a settled getFileInfo or scanTextFiles call
failureClass ==
    IF ~nonEmptyString(svc.arg) THEN "InvalidInput"
    ELSE IF svc.tasks = <<>> THEN "InvalidExtension"
    ELSE "FetchError"

\* the failure results of the three classes, for representative inputs
failureOf(class) ==
    CASE class = "InvalidInput" -> getFileInfoStart(Str(<<>>), now).promise.value
      [] class = "InvalidExtension" -> getFileInfoStart(Str(PathMd), now).promise.value
      [] class = "FetchError" ->
            getFileInfoResume(PathA, Response(404, "Not Found", TRUE, ErrorPage),
                              now).value

FailureClasses == {"InvalidInput", "InvalidExtension", "FetchError"}

taxonomyCall == svc.op \in {"getFileInfo", "scanTextFiles"} /\ svcFailed

\* C10 as claimed: the kind of a failure identifies its class, so it differs
\* from the kind of a failure of any other class.
C10_KindIdentifiesClass ==
    taxonomyCall =>
        \A c \in FailureClasses \ {failureClass} :
            svc.promise.value.error.type # failureOf(c).error.type

\* C10 amended: the kind does not identify the class: it is "Error" for an
\* invalid input, a missing extension and a non-OK response alike, and
\* "TypeError" for a rejected fetch or an unreadable body; what tells the
\* classes apart is the message, which differs between any two classes.
C10_MessageIdentifiesClass ==
    taxonomyCall =>
        /\ svc.promise.value.error.type =
              (IF failureClass = "FetchError"
                  /\ (svc.tasks[1].outcome.k = "reject"
                      \/ fetchSucceeded([svc.tasks[1].outcome EXCEPT !.readable = TRUE]))
               THEN "TypeError" ELSE "Error")
        /\ \A c \in FailureClasses \ {failureClass} :
              svc.promise.value.error.message # failureOf(c).error.message

C10_Witness ==
    /\ svc.op = "getFileInfo"
    /\ svcFailed
    /\ failureClass = "InvalidExtension"
    /\ svc.promise.value.error.type = "Error"
    /\ failureOf("InvalidInput").error.type = "Error"

(***************************************************************************)
(* Properties of the text analyzer.                                        *)
(***************************************************************************)
CapitalLetters ==
    {"A","B","C","D","E","F","G","H","I","J","K","L","M",
     "N","O","P","Q","R","S","T","U","V","W","X","Y","Z"}

\* sub occurs in s at some position
occursIn(s, sub) ==
    \E i \in 1..Len(s) :
        /\ i + Len(sub) - 1 <= Len(s)
        /\ \A k \in 1..Len(sub) : s[i + k - 1] = sub[k]

\* the first line qualifies as a title
titleLike(firstLine) ==
    /\ Len(firstLine) \in 1..99
    /\ firstLine[1] \in CapitalLetters
    /\ ~occursIn(firstLine, <<"h","t","t","p">>)
    /\ ~occursIn(firstLine, <<"w","w","w">>)

\* the title made from a file name, stated position by position: a run of
\* separators becomes one space, a character that starts the name or follows
\* a separator is upper-cased, every other character is lower-cased
titleOfName(fileName) ==
    LET isSep(i) == fileName[i] \in {"-", "_", " ", "\n", "\t", "\r"}
        kept == SelectSeq([i \in 1..Len(fileName) |-> i],
                          LAMBDA i : ~(isSep(i) /\ i > 1 /\ isSep(i - 1)))
    IN  [k \in 1..Len(kept) |->
            LET i == kept[k]
            IN  IF isSep(i) THEN " "
                ELSE IF i = 1 \/ isSep(i - 1) THEN toUpperChar(fileName[i])
                ELSE toLowerChar(fileName[i])]

\* C11: extractTitle returns the first line unchanged when it is non-empty,
\* shorter than 100 characters, starts with A-Z and contains neither "http"
\* nor "www"; otherwise it returns the file name split on runs of hyphen,
\* underscore and whitespace, each token title-cased, joined by single spaces
\* (the empty string for an empty file name).
C11_ExtractTitle ==
    /\ analysis.op = "extractTitle" =>
          /\ titleLike(analysis.firstLine) => analysis.result = analysis.firstLine
          /\ ~titleLike(analysis.firstLine) =>
                analysis.result = titleOfName(analysis.fileName)
          /\ (~titleLike(analysis.firstLine) /\ analysis.fileName = <<>>) =>
                analysis.result = <<>>
    /\ extractTitle(TheLongNight, <<"c","h","1">>) = TheLongNight
    /\ extractTitle(<<"h","t","t","p",":","/","/","x">>,
                    <<"m","y","-","s","t","o","r","y">>)
          = <<"M","y"," ","S","t","o","r","y">>

\* a capitalised first line that is rejected because it holds a link
C11_Witness ==
    /\ analysis.op = "extractTitle"
    /\ analysis.firstLine = <<"S","e","e"," ","h","t","t","p",":","/","/","x">>
    /\ analysis.fileName = <<"m","y","_","s","T","O","R","Y">>
    /\ analysis.result = <<"M","y"," ","S","t","o","r","y">>

\* the number of newline-separated segments of a content
segmentsOf(content) ==
    1 + Cardinality({i \in 1..Len(content) : content[i] = "\n"})

\* the number of maximal runs of non-whitespace characters of a content
tokensOf(content) ==
    LET blank(i) == content[i] \in {" ", "\n", "\t", "\r"}
    IN  Cardinality({i \in 1..Len(content) :
                        ~blank(i) /\ (i = 1 \/ blank(i - 1))})

\* the decimal digits of a number below 1000
decimal(n) ==
    LET d(k) == DigitChars[k + 1]
    IN  IF n < 10 THEN <<d(n)>>
        ELSE IF n < 100 THEN <<d(n \div 10), d(n % 10)>>
        ELSE <<d(n \div 100), d((n \div 10) % 10), d(n % 10)>>

\* the base of a blurb for L segments
baseOf(L) ==
    IF L <= 1 THEN <<"Single line text file">>
    ELSE (IF L \in 2..10 THEN <<"Short story with ">>
          ELSE IF L \in 11..50 THEN <<"Medium story with ">>
          ELSE <<"Long story with ">>) \o decimal(L) \o <<" lines">>

\* where the word count of a blurb ends
wordsEnd(blurb) == CHOOSE k \in 1..Len(blurb) : blurb[k] = " words)"

blurbCall == analysis.op = "generateFileInfo"

\* C12: generateFileInfo length buckets. With L segments of the content split
\* on newline, the blurb starts with the Single line base when L <= 1, the
\* Short base when 2 <= L <= 10, the Medium base when 11 <= L <= 50 and the
\* Long base when L >= 51, and the base is followed by " (W words)" with W
\* the number of non-empty whitespace-separated tokens of the content.
C12_LengthBuckets ==
    /\ blurbCall =>
          LET L    == segmentsOf(analysis.content)
              W    == tokensOf(analysis.content)
              head == baseOf(L) \o <<" (">> \o decimal(W) \o <<" words)">>
          IN  /\ \E k \in 1..Len(analysis.result) : analysis.result[k] = " words)"
              /\ SubSeq(analysis.result, 1, wordsEnd(analysis.result)) = head
    /\ lengthBase(1) = <<"Single line text file">>
    /\ lengthBase(10) = <<"Short story with ", "1", "0", " lines">>
    /\ lengthBase(11) = <<"Medium story with ", "1", "1", " lines">>
    /\ lengthBase(50) = <<"Medium story with ", "5", "0", " lines">>
    /\ lengthBase(51) = <<"Long story with ", "5", "1", " lines">>

\* a content of exactly 50 lines of two words each
C12_Witness ==
    /\ blurbCall
    /\ segmentsOf(analysis.content) = 50
    /\ analysis.result =
          <<"Medium story with ", "5", "0", " lines", " (", "1", "0", "0", " words)">>

hasLink(content) ==
    occursIn(content, <<"h","t","t","p">>) \/ occursIn(content, <<"w","w","w">>)

hasAt(content) == \E i \in 1..Len(content) : content[i] = "@"

\* four digits, "-", two digits, "-", two digits, somewhere in the content
hasDate(content) ==
    LET digit(i) == content[i] \in {"0","1","2","3","4","5","6","7","8","9"}
    IN  \E i \in 1..Len(content) :
           /\ i + 9 <= Len(content)
           /\ \A k \in {0, 1, 2, 3, 5, 6, 8, 9} : digit(i + k)
           /\ content[i + 4] = "-"
           /\ content[i + 7] = "-"

\* what follows the word count of a blurb
hintsOf(blurb) == SubSeq(blurb, wordsEnd(blurb) + 1, Len(blurb))

\* C13: generateFileInfo content hints. Each hint is appended if and only if
\* its own trigger occurs in the content ("http" or "www"; "@"; a dddd-dd-dd
\* digit pattern), independently of the other two, and the appended hints
\* appear in the order links, email, dates wherever the triggers occur.
C13_ContentHints ==
    blurbCall =>
        hintsOf(analysis.result) =
            (IF hasLink(analysis.content) THEN <<" - Contains links">> ELSE <<>>)
            \o (IF hasAt(analysis.content)
                THEN <<" - Contains email addresses">> ELSE <<>>)
            \o (IF hasDate(analysis.content) THEN <<" - Contains dates">> ELSE <<>>)

\* a content with the triggers in the order date, email, link
C13_Witness ==
    /\ blurbCall
    /\ analysis.content =
          <<"2","0","2","4","-","0","1","-","0","2"," ","@"," ","h","t","t","p">>
    /\ hintsOf(analysis.result) =
          <<" - Contains links", " - Contains email addresses", " - Contains dates">>

(***************************************************************************)
(* Properties of the records getFileInfo builds.                           *)
(***************************************************************************)
\* a getFileInfo call that returned a record
svcRecord ==
    /\ svc.op = "getFileInfo"
    /\ svc.phase = "settled"
    /\ svc.promise.value.success

\* the first newline-separated segment without its leading and trailing
\* whitespace, stated on the positions of the content
trimmedFirstSegment(content) ==
    LET nls   == {i \in 1..Len(content) : content[i] = "\n"}
        stop  == IF nls = {} THEN Len(content) + 1
                 ELSE CHOOSE i \in nls : \A j \in nls : i <= j
        solid == {i \in 1..(stop - 1) : content[i] \notin {" ", "\n", "\t", "\r"}}
    IN  IF solid = {} THEN <<>>
        ELSE SubSeq(content,
                    CHOOSE i \in solid : \A j \in solid : i <= j,
                    CHOOSE i \in solid : \A j \in solid : i >= j)

\* C14: every record of a successful getFileInfo has lineCount >= 1,
\* wordCount >= 0, characterCount = fileSize = the length of the content, the
\* content of the response unchanged, firstLine = the trimmed first segment,
\* and an info blurb whose line and word counts are the record's own.
C14_RecordInvariants ==
    svcRecord =>
        LET d    == svc.promise.value.data
            body == svc.tasks[1].outcome.body
        IN  /\ d.lineCount >= 1
            /\ d.lineCount = segmentsOf(body)
            /\ d.wordCount >= 0
            /\ d.wordCount = tokensOf(body)
            /\ d.characterCount = Len(body)
            /\ d.fileSize = Len(body)
            /\ d.content = body
            /\ d.firstLine = trimmedFirstSegment(body)
            /\ SubSeq(d.info, 1, wordsEnd(d.info))
                  = baseOf(d.lineCount) \o <<" (">> \o decimal(d.wordCount)
                    \o <<" words)">>

\* the record of an empty document
C14_Witness ==
    /\ svcRecord
    /\ svc.tasks[1].outcome.body = <<>>
    /\ svc.promise.value.data.lineCount = 1
    /\ svc.promise.value.data.wordCount = 0
    /\ svc.promise.value.data.info
          = <<"Single line text file", " (", "0", " words)">>

\* the part of a path after its last "/"
finalSegment(path) ==
    LET slashes == {i \in 1..Len(path) : path[i] = "/"}
        last    == IF slashes = {} THEN 0
                   ELSE CHOOSE i \in slashes : \A j \in slashes : i >= j
    IN  SubSeq(path, last + 1, Len(path))

\* C15: for every path getFileInfo accepts, the record's fileName is the
\* final "/"-separated segment with its extension stripped: it holds no "/",
\* it is the final segment without its last four characters, and it does not
\* itself end with ".txt" in any letter case.
C15_FileNameStripped ==
    svcRecord =>
        LET fileName == svc.promise.value.data.fileName
            segment  == finalSegment(svc.arg.s)
        IN  /\ \A i \in 1..Len(fileName) : fileName[i] # "/"
            /\ fileName = SubSeq(segment, 1, Len(segment) - 4)
            /\ ~hasTxtExtension(fileName)

(***************************************************************************)
(* Properties of slugs.                                                    *)
(***************************************************************************)
SlugChars ==
    {"a","b","c","d","e","f","g","h","i","j","k","l","m","n","o","p","q","r",
     "s","t","u","v","w","x","y","z","0","1","2","3","4","5","6","7","8","9","-"}

\* delete what is neither letter, digit nor whitespace; put one "-" for each
\* run of whitespace; lower-case
slugOf(title) ==
    LET blanks == {" ", "\n", "\t", "\r"}
        stays(c) == c \in SlugChars \ {"-"} \/ c \in CapitalLetters \/ c \in blanks
        left == SelectSeq(title, stays)
    IN  toLowerCase(join(splitRuns(left, blanks), <<"-">>))

\* C17: slug derivation. The slug of a title is the title without the
\* characters that are neither ASCII letter, digit nor whitespace, with each
\* maximal run of whitespace replaced by one "-", lower-cased; it holds only
\* a-z, 0-9 and "-", never two consecutive "-", and the Stories list and the
\* Story view compute the same slug for the same title.
C17_SlugDerivation ==
    analysis.op = "storyTitle" =>
        /\ analysis.result = slugOf(analysis.title)
        /\ \A i \in 1..Len(analysis.result) : analysis.result[i] \in SlugChars
        /\ \A i \in 1..(Len(analysis.result) - 1) :
              ~(analysis.result[i] = "-" /\ analysis.result[i + 1] = "-")
        /\ analysis.matched = analysis.result

\* a title with leading, repeated and trailing whitespace
C17_Witness ==
    /\ analysis.op = "storyTitle"
    /\ analysis.title = <<" ","A"," "," ","b"," ">>
    /\ analysis.result = <<"-","a","-","b","-">>
    /\ analysis.matched = <<"-","a","-","b","-">>

(***************************************************************************)
(* Properties of the Story view.                                           *)
(***************************************************************************)
\* the Story route is shown
storyShown == location.route = "/story/:title"

\* the first record, in listing order, whose slug is the title parameter
firstWithSlug(records, title) ==
    LET hits == {i \in 1..Len(records) : slugOf(records[i].title) = title}
    IN  IF hits = {} THEN JsNull
        ELSE records[CHOOSE i \in hits : \A j \in hits : i <= j]

\* C16: slug routing, first match wins. After a click on a card of the
\* Stories list the Story view loads, and when its load has completed the
\* story it holds is the first listed record whose slug equals the title
\* parameter.
C16_FirstMatchWins ==
    (storyShown /\ storiesPc = "done") =>
        /\ storyView.pc # "crashed"
        /\ storyView.pc = "done" =>
              storyView.state.story = firstWithSlug(stories, storyView.title)

\* C18: explicit not-found state. A Story view is never a crash; after a load
\* attempt loading is false; and a completed load without a matching record
\* leaves error = "Story not found" and story = null, shown as a not-found
\* view.
C18_NotFoundShown ==
    storyShown =>
        /\ storyView.rendered.c = "return"
        /\ storyView.pc = "done" =>
              /\ ~storyView.state.loading
              /\ storyView.state.story = JsNull =>
                    /\ storyView.state.error = ErrMsg(<<"Story not found">>)
                    /\ storyView.rendered.v.t = "notFound"

\* C24: the render of the Story view reads the fields of story (title,
\* fileSize, lineCount, wordCount, characterCount, content) only when story
\* is not null: in no state of the view, the initial mount included, has a
\* render with story = null failed on reading one of them.
C24_RenderGuardsStory ==
    (storyShown /\ storyView.state.story = JsNull) =>
        /\ storyView.rendered.c # "throw"
        /\ storyView.pc # "crashed"

readablePath(v) == nonEmptyString(v) /\ hasTxtExtension(v.s)

\* the i-th read of the batch succeeded: an accepted path whose content came
\* back in a readable OK response
readSucceeded(i) ==
    /\ readablePath(svc.arg.a[i])
    /\ fetchSucceeded(svc.tasks[i].outcome)

\* the positions 1..n that satisfy (or not) readSucceeded, in input order
positionsRead(wanted) ==
    SelectSeq([i \in 1..Len(svc.arg.a) |-> i],
              LAMBDA i : readSucceeded(i) = wanted)

outcomesNow == [i \in 1..Len(tasks) |-> tasks[i].outcome]

\* the current listing found the folder exactly as the previous one did
sameAnswers ==
    /\ visit.previous.manifest = scan.outcome
    /\ visit.previous.contents = outcomesNow

\* the records of the previous listing, stamped with the times of this one
restamped ==
    [j \in 1..Len(visit.previous.stories) |->
        [visit.previous.stories[j] EXCEPT
            !.timestamp = IF j <= Len(stories) THEN stories[j].timestamp ELSE @]]

\* C19: no caching between listings. On a later visit of the Stories page the
\* page starts empty; the listing requests the manifest again and then the
\* content of every entry the scan returned; every answer is what the folder
\* serves during this visit, also for a document replaced since the previous
\* visit; the published records carry the bodies of this visit's answers;
\* and when every answer is the same as on the previous visit, the published
\* records are the previous ones except for their timestamps.
C19_NoCaching ==
    visit.n > 1 =>
        /\ storiesPc = "mounted" =>
              stories = <<>> /\ fetches = <<>> /\ tasks = <<>>
        /\ storiesPc = "awaitScan" =>
              fetches = <<StoryTxtFolder \o FileManifestJson>>
        /\ scanSettled =>
              /\ visit.folder.manifest = scan.outcome
              /\ Head(fetches) = StoryTxtFolder \o FileManifestJson
              /\ Tail(fetches) = [i \in 1..Len(tasks) |-> tasks[i].url]
        /\ \A i \in 1..Len(tasks) :
              (tasks[i].outcome # NoOutcome
               /\ tasks[i].url \in DOMAIN visit.folder.content) =>
                  tasks[i].outcome = visit.folder.content[tasks[i].url]
        /\ storiesPc = "done" =>
              /\ \A i \in 1..Len(tasks) : tasks[i].outcome # NoOutcome
              /\ Len(stories) = Len(okTasks)
              /\ \A j \in 1..Len(stories) :
                    /\ stories[j].path = okTasks[j].url
                    /\ stories[j].content = okTasks[j].outcome.body
                    /\ stories[j].fileSize = Len(okTasks[j].outcome.body)
                    /\ stories[j].timestamp = now
              /\ sameAnswers => stories = restamped

\* the second listing of two documents: the first was replaced in between
\* and is listed with its new content, the second was not and is listed as
\* before with a later timestamp
C19_Witness ==
    /\ visit.n = 2
    /\ storiesPc = "done"
    /\ Len(stories) = 2
    /\ Len(visit.previous.stories) = 2
    /\ stories[1].path = visit.previous.stories[1].path
    /\ stories[1].content # visit.previous.stories[1].content
    /\ stories[1].content = visit.folder.content[stories[1].path].body
    /\ stories[2].timestamp > visit.previous.stories[2].timestamp
    /\ stories[2] = [visit.previous.stories[2] EXCEPT !.timestamp = now]

\* an unchanged folder listed twice: the same records, stamped later
C19_Unchanged ==
    /\ visit.n = 2
    /\ storiesPc = "done"
    /\ sameAnswers
    /\ Len(stories) = 2
    /\ stories = restamped
    /\ stories # visit.previous.stories

(***************************************************************************)
(* Properties of the manifest tool.                                        *)
(***************************************************************************)
\* the last two runs of the tool each wrote a manifest
wroteTwice ==
    /\ tool.previous # JsNull
    /\ tool.previous.manifest # JsNull
    /\ tool.last.manifest # JsNull

\* the two runs scanned the same directory: the same items in the same
\* order, the manifest file the tool itself writes left aside
sameDirectory ==
    /\ tool.last.dir.listable = tool.previous.dir.listable
    /\ otherItems(tool.last.dir.items) = otherItems(tool.previous.dir.items)

\* C21: idempotence of the manifest tool. Every manifest written has
\* totalFiles equal to the length of textFiles; and when two successive runs
\* scan a directory whose contents did not change (apart from the manifest
\* file written by the first run), the two manifests agree in every field
\* except generatedAt.
C21_Idempotent ==
    /\ (tool.last # JsNull /\ tool.last.manifest # JsNull) =>
          tool.last.manifest.totalFiles = Len(tool.last.manifest.textFiles)
    /\ (wroteTwice /\ sameDirectory) =>
          /\ tool.last.manifest.textFiles = tool.previous.manifest.textFiles
          /\ tool.last.manifest.totalFiles = tool.previous.manifest.totalFiles
          /\ tool.last.manifest.folderPath = tool.previous.manifest.folderPath
          /\ [tool.last.manifest EXCEPT !.generatedAt = 0]
                = [tool.previous.manifest EXCEPT !.generatedAt = 0]

\* two runs over an unchanged directory with a story in it, the first of
\* which created the manifest file, the second at a later time
C21_Witness ==
    /\ wroteTwice
    /\ sameDirectory
    /\ manifestAt(tool.previous.dir.items) = 0
    /\ manifestAt(tool.last.dir.items) # 0
    /\ tool.last.manifest.totalFiles = 1
    /\ tool.last.manifest.textFiles[1].path = Str(PathA)
    /\ tool.last.manifest.generatedAt > tool.previous.manifest.generatedAt
    /\ tool.last.manifest.textFiles = tool.previous.manifest.textFiles

\* the number of lines of a content holding a character that is not space
nonBlankLines(content) ==
    LET lines == split(content, "\n")
    IN  Cardinality({i \in 1..Len(lines) :
                        \E k \in 1..Len(lines[i]) : ~IsSpace(lines[i][k])})

\* the inclusion rule, stated on an item of the directory
shouldList(it) ==
    /\ it.kind = "file"
    /\ hasTxtExtension(it.name)
    /\ \A w \in AdminWords :
          \A i \in 0..Len(it.name) : ~startsAt(toLowerCase(it.name), w, i)
    /\ it.readable
    /\ nonBlankLines(it.content) >= 2

\* the paths of the entries of the manifest just written, in order
pathsWritten ==
    [k \in 1..Len(tool.last.manifest.textFiles) |->
        tool.last.manifest.textFiles[k].path.s]

\* the paths the inclusion rule asks for, in directory order
pathsToList ==
    LET items == SelectSeq(tool.last.dir.items, shouldList)
    IN  [k \in 1..Len(items) |-> StoryTxtFolder \o items[k].name]

wroteListable ==
    /\ tool.last # JsNull
    /\ tool.last.manifest # JsNull
    /\ tool.last.dir.listable

\* C22: the inclusion rule of the manifest tool. For a directory that can be
\* listed, textFiles has an entry for an item if and only if the item is a
\* regular file whose name ends with ".txt" in any letter case, whose
\* lower-cased name contains no administrative word and whose content has at
\* least 2 non-blank lines; every entry's path ends with ".txt" in some
\* letter case.
C22_InclusionRule ==
    wroteListable =>
        /\ pathsWritten = pathsToList
        /\ \A k \in 1..Len(pathsWritten) : hasTxtExtension(pathsWritten[k])

\* the rule where the scan reached the end of the directory: no item that
\* statSync fails on, no ".txt" file that cannot be read
C22_RuleWhenNothingThrows ==
    (wroteListable
     /\ \A i \in 1..Len(tool.last.dir.items) : ~scanThrowsOn(tool.last.dir.items[i])) =>
        /\ pathsWritten = pathsToList
        /\ \A k \in 1..Len(pathsWritten) : hasTxtExtension(pathsWritten[k])

\* the items of the scanned directory an entry of the manifest stands for
itemsOf(entry) ==
    {i \in 1..Len(tool.last.dir.items) :
        StoryTxtFolder \o tool.last.dir.items[i].name = entry.path.s}

\* the record the runtime getFileInfo builds for an entry's path when the
\* path serves the content of the item
runtimeRecord(entry, i) ==
    getFileInfoResume(entry.path.s,
                      Response(200, "OK", TRUE, tool.last.dir.items[i].content),
                      now).value.data

wroteManifest == tool.last # JsNull /\ tool.last.manifest # JsNull

\* C23: the manifest tool and the runtime catalog analyze text alike. Every
\* entry the tool writes is either the hard-coded fallback entry or stands
\* for an item of the directory, and then its title and info are the title
\* and info of the record getFileInfo builds from the same path and content;
\* and every entry written is retained by the runtime manifest filter.
C23_SameAnalysis ==
    wroteManifest =>
        \A k \in 1..Len(tool.last.manifest.textFiles) :
            LET entry == tool.last.manifest.textFiles[k]
            IN  /\ entry = updaterFallback \/ itemsOf(entry) # {}
                /\ \A i \in itemsOf(entry) :
                      /\ entry.title = runtimeRecord(entry, i).title
                      /\ entry.info = runtimeRecord(entry, i).info
                /\ isStoryFile(entry)
                /\ storyFilesOf([textFiles |-> Arr(<<entry>>)]) = Return(<<entry>>)

\* a manifest with the entry of my_B.TXT, titled from the file name as the
\* runtime titles it
C23_Witness ==
    /\ wroteManifest
    /\ \E k \in 1..Len(tool.last.manifest.textFiles) :
          LET entry == tool.last.manifest.textFiles[k]
          IN  /\ entry.title = <<"M","y"," ","B",".","t","x","t">>
              /\ \E i \in itemsOf(entry) :
                    /\ runtimeRecord(entry, i).title = entry.title
                    /\ runtimeRecord(entry, i).info = entry.info

(***************************************************************************)
(* Properties of the route transition.                                     *)
(***************************************************************************)
\* C26: overlay safety. While the blackhole overlay is shown the page
\* content is never fully faded in (opacity 1); in particular a fade timer
\* left from an earlier route change does not set opacity to 1 after a later
\* route change has shown the overlay again.
C26_OverlaySafety ==
    shell.mounted => ~(shell.showBlackhole /\ shell.opacity = 1)

\* no effect is waiting to run and no timer is pending
quiescent ==
    /\ ~shell.effectPending
    /\ shell.blackholeTimer = NoTimer
    /\ shell.fadeTimers = {}

\* the view has settled: overlay hidden, content fully faded in
settled ==
    /\ shell.mounted
    /\ ~shell.showBlackhole
    /\ shell.opacity = 1

\* C27: transition liveness, as the state the timers lead to. Once every
\* pending timer has fired after the last route change the view is there
\* with the overlay hidden and opacity 1, and it stays so; and after an
\* effect has run the overlay is hidden only when the full delay has passed
\* since the most recent one.
C27_TransitionSettles ==
    /\ quiescent => settled
    /\ (shell.mounted /\ ~shell.effectPending /\ ~shell.showBlackhole) =>
          shell.sinceEffect >= BlackholeDelay

\* the same for a shell that is still there: no route change rendered a
\* page that threw
C27_SettlesWhileMounted ==
    shell.mounted =>
        /\ quiescent => settled
        /\ (~shell.effectPending /\ ~shell.showBlackhole) =>
              shell.sinceEffect >= BlackholeDelay

====
